---- MODULE Spec2Model ----
(***************************************************************************)
(* A model of fastboot.ts, src/flasher.ts: the FastbootDevice protocol     *)
(* engine (exec, getVar, sendCommand, getPackets, transferData), the       *)
(* reconnect schedule (reconnect, waitForReconnect) and the script runner  *)
(* FastbootFlasher.run.                                                    *)
(*                                                                         *)
(* JavaScript is single threaded: a call runs without interruption until   *)
(* it awaits an I/O promise (a USB transfer, open/selectConfiguration/     *)
(* claimInterface, getDevices, a timer, an event).  One action of the      *)
(* model is the code between two such suspension points.                   *)
(***************************************************************************)
EXTENDS Integers, Sequences, FiniteSets, TLC

VARIABLES
  opened,          \* this.device.opened
  session,         \* this.session: [status, packets]
  sessions,        \* this.sessions
  usb,             \* every transfer made on the device, in order
  pc,              \* per caller: the await the call is suspended at
  op,              \* per caller: the public method called
  arg,             \* per caller: the command text, or the buffer's byteLength
  i,               \* per caller: transferData's chunk index
  remainingBytes,  \* per caller: transferData's remainingBytes
  nInfo,           \* INFO/TEXT packets the bootloader has sent so far
  outcome,         \* per caller: how the last call ended
  calls,           \* number of calls started
  visible,         \* the devices navigator.usb.getDevices() would list now
  device,          \* this.device
  serialNumber,    \* this.serialNumber
  epIn,            \* this.in
  epOut,           \* this.out
  loggerCallable,  \* whether the logger object given to the constructor is a function
  wpc,             \* where the waitForReconnect call is suspended
  tier,            \* which reconnect() of waitForReconnect is running (1..4)
  devices,         \* the array the pending getDevices() will resolve with
  listener,        \* a "connect" listener is registered on navigator.usb
  connectEvents,   \* "connect" events queued and not yet dispatched
  wlog,            \* what the waitForReconnect call has done, in order
  wresult,         \* how the waitForReconnect call ended
  waitCalls,       \* number of waitForReconnect calls started
  plugs,           \* number of plug / unplug events so far
  archive,         \* the entries of the zip the FastbootFlasher reads
  nestedInfo,      \* whether a zip nested in it holds fastboot-info.txt
  flashAllSh,      \* the text of its flash-all.sh entry, as its lines
  script,          \* the text run is given, as its lines
  commands,        \* run's commands
  rpc,             \* where the run call is suspended
  ip,              \* the index in commands of the instruction run is executing
  step,            \* how many promises run has awaited for that instruction
  rlog,            \* the promises run has awaited, in order
  rresult,         \* how the run call ended
  ptext,           \* the texts given to parseInstruction
  presult          \* what parseInstruction made of them

engineVars == <<opened, session, sessions, usb>>
callVars == <<pc, op, arg, i, remainingBytes, nInfo, outcome, calls>>
bindVars == <<visible, device, serialNumber, epIn, epOut>>
waitVars == <<loggerCallable, wpc, tier, devices, listener, connectEvents, wlog, wresult,
              waitCalls, plugs>>
runVars == <<archive, nestedInfo, flashAllSh, script, commands, rpc, ip, step, rlog, rresult>>
\* what the engine's methods leave alone
parseVars == <<ptext, presult>>
nonEngineVars == <<bindVars, waitVars, runVars, parseVars>>
\* the FastbootDevice
deviceVars == <<engineVars, callVars, bindVars, waitVars>>
vars == <<opened, session, sessions, usb, pc, op, arg, i, remainingBytes, nInfo,
          outcome, calls, bindVars, waitVars, runVars, parseVars>>

(***************************************************************************)
(* Bounds                                                                  *)
(***************************************************************************)
\* calls started in one behaviour
MaxCalls == 2
\* INFO/TEXT packets the bootloader sends in one behaviour
MaxInfo == 1
\* waitForReconnect calls started in one behaviour
MaxWaitCalls == 1
\* devices plugged in or unplugged in one behaviour
MaxPlugs == 2
\* lines of a script
MaxLines == 2
\* lines of a flash-all.sh
MaxRawLines == 3

Callers == {1, 2}

\* byteLength of the buffers given to transferData
BufferLengths == {0, 16384, 40000}
\* variable names given to getVar, command texts given to exec / sendCommand
VarNames == {"product"}
Commands == {<<"erase:misc">>}

(***************************************************************************)
(* Program constants                                                       *)
(***************************************************************************)
BULK_TRANSFER_SIZE == 16384

(***************************************************************************)
(* Number.prototype.toString(16), String.prototype.padStart, parseInt(_,16)*)
(* Strings of digits are sequences of one-character strings.               *)
(***************************************************************************)
HexDigits == <<"0", "1", "2", "3", "4", "5", "6", "7",
               "8", "9", "a", "b", "c", "d", "e", "f">>

RECURSIVE ToString16(_)
ToString16(n) ==
  IF n < 16 THEN <<HexDigits[n + 1]>>
  ELSE ToString16(n \div 16) \o <<HexDigits[(n % 16) + 1]>>

RECURSIVE PadStart(_, _, _)
PadStart(s, len, ch) ==
  IF Len(s) >= len THEN s ELSE PadStart(<<ch>> \o s, len, ch)

DigitValue(d) == (CHOOSE k \in 1..16 : HexDigits[k] = d) - 1

RECURSIVE ParseInt16(_)
ParseInt16(s) ==
  IF s = <<>> THEN 0
  ELSE ParseInt16(SubSeq(s, 1, Len(s) - 1)) * 16 + DigitValue(s[Len(s)])

\* transferData's xferHex
XferHex(byteLength) == PadStart(ToString16(byteLength), 8, "0")

(***************************************************************************)
(* Packets and sessions                                                    *)
(***************************************************************************)
Null == "null"
Undefined == [undefined |-> TRUE]

CommandPacket(text) == [command |-> text]

\* What the bootloader may put on the IN endpoint: a 4-byte prefix and the rest.
\* "JUNK" stands for every prefix that is not one of the five status codes.
WirePackets ==
  [prefix : {"INFO", "TEXT", "OKAY", "FAIL", "JUNK"}, rest : {<<"m">>}]
  \cup {[prefix |-> "DATA", rest |-> XferHex(n)] : n \in BufferLengths}

\* getPacket's switch (status): the decoded ResponsePacket, or Undefined when
\* the default branch throws.
DecodePacket(raw) ==
  CASE raw.prefix = "INFO" -> [status |-> "INFO", message |-> <<"(bootloader)  ">> \o raw.rest]
    [] raw.prefix \in {"TEXT", "FAIL", "OKAY"} -> [status |-> raw.prefix, message |-> raw.rest]
    [] raw.prefix = "DATA" ->
         [status |-> "DATA", dataLength |-> ParseInt16(SubSeq(raw.rest, 1, 8)),
          message |-> <<"ready to transfer">>]
    [] OTHER -> Undefined

\* packet.status, undefined for a CommandPacket
StatusOf(packet) == IF "status" \in DOMAIN packet THEN packet.status ELSE "undefined"

NewSession == [status |-> Null, packets |-> <<>>]

\* get lastPacket(), of a session
LastPacketOf(s) == IF Len(s.packets) = 0 THEN Undefined ELSE s.packets[Len(s.packets)]

\* isActive that looks at response packets only: a session whose last packet
\* is the Command packet counts as idle
IsActiveOf_ResponsesOnly(s) ==
  IF Len(s.packets) = 0 THEN FALSE
  ELSE StatusOf(s.packets[Len(s.packets)]) \in {"INFO", "TEXT", "DATA"}

\* get isActive(), of a session
IsActiveOf(s) ==
  IF Len(s.packets) = 0 THEN FALSE
  ELSE StatusOf(LastPacketOf(s)) \notin {"FAIL", "OKAY"}

lastPacket == LastPacketOf(session)
isActive == IsActiveOf(session)

(***************************************************************************)
(* USB transfers, as the host sees them                                    *)
(***************************************************************************)
OutCommand(p, text) == [dir |-> "out", by |-> p, kind |-> "command", text |-> text]
OutChunk(p, from, len) == [dir |-> "out", by |-> p, kind |-> "chunk", from |-> from, len |-> len]
InPacket(p, raw) == [dir |-> "in", by |-> p, kind |-> "packet", raw |-> raw]

\* slice() with `end` not clamped to the buffer: every chunk a full one
SliceLength_Unclamped(n, begin, end) == end - begin

\* ArrayBuffer.prototype.slice(begin, end).byteLength on a buffer of n bytes
SliceLength(n, begin, end) ==
  LET b == IF begin > n THEN n ELSE begin
      e == IF end > n THEN n ELSE end
  IN IF e > b THEN e - b ELSE 0

(***************************************************************************)
(* How a call ends                                                         *)
(***************************************************************************)
Pending == [kind |-> "pending", error |-> "", value |-> Undefined]
Returned(v) == [kind |-> "returned", error |-> "", value |-> v]
Thrown(e, message) == [kind |-> "thrown", error |-> e, value |-> [message |-> message]]
\* new FastbootDeviceError(status, message); every throw site passes status "FAIL"
FastbootDeviceError(message) == Thrown("FastbootDeviceError", message)

NoArg == [text |-> <<>>, byteLength |-> 0]
TrueValue == [boolean |-> TRUE]

(***************************************************************************)
(* parseInstruction's locals                                               *)
(***************************************************************************)
\* InstructionOptions with nothing set: <<>> and FALSE stand for undefined
NoOptions ==
  [wipe |-> FALSE, setActive |-> <<>>, slot |-> <<>>, skipReboot |-> FALSE,
   applyVbmeta |-> FALSE]

\* the state of parseInstruction's loop; error # "" once it has thrown
ParseStart == [command |-> <<>>, args |-> <<>>, options |-> NoOptions, error |-> ""]

\* the texts given to parseInstruction, a line and the same line with one more
\* token, and its results
NoTexts == [with |-> <<>>, without |-> <<>>]
NotParsed == [done |-> FALSE, with |-> ParseStart, without |-> ParseStart]

(***************************************************************************)
(* USB devices the host may see.  Device 1 is the one the FastbootDevice   *)
(* was constructed with; device 2 is the same phone enumerating with a     *)
(* single endpoint; device 3 is another phone; devices 4 and 5 are the     *)
(* same phone enumerating with two IN and with two OUT endpoints.          *)
(***************************************************************************)
DeviceIds == {1, 2, 3, 4, 5}
SerialOf(d) == IF d = 3 THEN "B" ELSE "A"
\* device.configurations[0].interfaces[0].alternate.endpoints, as directions
EndpointsOf(d) ==
  CASE d = 1 -> <<"in", "out">>
    [] d = 2 -> <<"in">>
    [] d = 3 -> <<"out", "in">>
    [] d = 4 -> <<"in", "in">>
    [] OTHER -> <<"out", "out">>
Endpoint(d, k) == [device |-> d, endpointNumber |-> k, direction |-> EndpointsOf(d)[k]]

\* setup()'s for loop over the endpoints from the k-th on, starting with
\* this.in = in and this.out = out
RECURSIVE SetupLoop(_, _, _, _)
SetupLoop(d, k, in, out) ==
  IF k > Len(EndpointsOf(d)) THEN [ok |-> TRUE, in |-> in, out |-> out]
  ELSE IF EndpointsOf(d)[k] = "in" THEN SetupLoop(d, k + 1, Endpoint(d, k), out)
  ELSE IF EndpointsOf(d)[k] = "out" THEN SetupLoop(d, k + 1, in, Endpoint(d, k))
  ELSE [ok |-> FALSE, in |-> in, out |-> out]

\* setup() on device d: whether it returned, and this.in / this.out afterwards
Setup(d, in, out) ==
  IF Len(EndpointsOf(d)) # 2 THEN [ok |-> FALSE, in |-> in, out |-> out]
  ELSE SetupLoop(d, 1, in, out)

\* the FastbootDevice as its constructor leaves it, bound to device d
ConstructedOn(d) ==
  /\ session = NewSession
  /\ sessions = <<>>
  /\ usb = <<>>
  /\ pc = [p \in Callers |-> "idle"]
  /\ op = [p \in Callers |-> "none"]
  /\ arg = [p \in Callers |-> NoArg]
  /\ i = [p \in Callers |-> 0]
  /\ remainingBytes = [p \in Callers |-> 0]
  /\ nInfo = 0
  /\ outcome = [p \in Callers |-> Pending]
  /\ calls = 0
  /\ device = d
  /\ serialNumber = SerialOf(d)
  /\ epIn = Setup(d, Undefined, Undefined).in
  /\ epOut = Setup(d, Undefined, Undefined).out
  /\ wpc = "idle"
  /\ tier = 0
  /\ devices = {}
  /\ listener = FALSE
  /\ connectEvents = 0
  /\ wlog = <<>>
  /\ wresult = Pending
  /\ waitCalls = 0
  /\ plugs = 0
  /\ commands = <<>>
  /\ rpc = "idle"
  /\ ip = 0
  /\ step = 0
  /\ rlog = <<>>
  /\ rresult = Pending

\* the FastbootDevice bound to device 1
Constructed == ConstructedOn(1)

\* the engine is used with the default logger while its device stays plugged in
Init ==
  /\ Constructed
  /\ opened \in BOOLEAN
  /\ visible = {1}
  /\ loggerCallable = FALSE
  /\ archive = {}
  /\ nestedInfo = FALSE
  /\ flashAllSh = <<>>
  /\ ptext = NoTexts
  /\ presult = NotParsed
  /\ script = <<>>

(***************************************************************************)
(* The engine.  A caller p that is idle may start a call; a caller inside  *)
(* a call is suspended at pc[p].                                           *)
(***************************************************************************)
Set(f, p, v) == [f EXCEPT ![p] = v]

\* The call of p ends: its promise settles with `result`.
Settle(p, result) ==
  /\ pc' = Set(pc, p, "idle")
  /\ outcome' = Set(outcome, p, result)

\* sendCommand up to its first await (lines 483-491), on session s
SendCommandSession(s, text) == [s EXCEPT !.packets = Append(@, CommandPacket(text))]

\* exec, lines 513-516: archive the session, start a fresh one, sendCommand
ExecBody(p, text) ==
  /\ sessions' = Append(sessions, session)
  /\ session' = SendCommandSession(NewSession, text)
  /\ usb' = Append(usb, OutCommand(p, text))
  /\ pc' = Set(pc, p, "sendCommand_transferOut")

\* exec(command), lines 506-511, called as `as` (exec itself, or through getVar)
ExecCall(p, text, as) ==
  /\ pc[p] = "idle"
  /\ UNCHANGED nonEngineVars
  /\ calls < MaxCalls
  /\ calls' = calls + 1
  /\ op' = Set(op, p, as)
  /\ arg' = Set(arg, p, [text |-> text, byteLength |-> 0])
  /\ UNCHANGED <<i, remainingBytes, nInfo>>
  /\ IF isActive
       THEN /\ Settle(p, Thrown("Error", <<"fastboot device is busy">>))
            /\ UNCHANGED engineVars
       ELSE IF ~opened
       THEN /\ pc' = Set(pc, p, "open")
            /\ outcome' = Set(outcome, p, Pending)
            /\ UNCHANGED engineVars
       ELSE /\ ExecBody(p, text)
            /\ outcome' = Set(outcome, p, Pending)
            /\ UNCHANGED opened

Exec(p) == \E text \in Commands : ExecCall(p, text, "exec")

\* getVar(variable), line 520
GetVar(p) == \E variable \in VarNames : ExecCall(p, <<"getvar:", variable>>, "getVar")

\* connect(), awaited by exec: device.open() resolves
DeviceOpen(p) ==
  /\ pc[p] = "open"
  /\ UNCHANGED nonEngineVars
  /\ opened' = TRUE
  /\ pc' = Set(pc, p, "selectConfiguration")
  /\ UNCHANGED <<session, sessions, usb, op, arg, i, remainingBytes, nInfo, outcome, calls>>

\* connect(): device.selectConfiguration(1) resolves
SelectConfiguration(p) ==
  /\ pc[p] = "selectConfiguration"
  /\ UNCHANGED nonEngineVars
  /\ pc' = Set(pc, p, "claimInterface")
  /\ UNCHANGED <<engineVars, op, arg, i, remainingBytes, nInfo, outcome, calls>>

\* connect(): device.claimInterface(0) resolves, and exec goes on at line 513
ClaimInterface(p) ==
  /\ pc[p] = "claimInterface"
  /\ UNCHANGED nonEngineVars
  /\ ExecBody(p, arg[p].text)
  /\ UNCHANGED <<opened, op, arg, i, remainingBytes, nInfo, outcome, calls>>

\* sendCommand(text) called directly
SendCommand(p) ==
  \E text \in Commands :
    /\ pc[p] = "idle"
    /\ UNCHANGED nonEngineVars
    /\ calls < MaxCalls
    /\ calls' = calls + 1
    /\ op' = Set(op, p, "sendCommand")
    /\ arg' = Set(arg, p, [text |-> text, byteLength |-> 0])
    /\ session' = SendCommandSession(session, text)
    /\ usb' = Append(usb, OutCommand(p, text))
    /\ pc' = Set(pc, p, "sendCommand_transferOut")
    /\ outcome' = Set(outcome, p, Pending)
    /\ UNCHANGED <<opened, sessions, i, remainingBytes, nInfo>>

\* transferData(buffer), lines 542-553
TransferData(p) ==
  \E byteLength \in BufferLengths :
    LET xferHex == XferHex(byteLength)
        text == <<"download:">> \o xferHex
    IN /\ pc[p] = "idle"
       /\ UNCHANGED nonEngineVars
       /\ calls < MaxCalls
       /\ calls' = calls + 1
       /\ op' = Set(op, p, "transferData")
       /\ arg' = Set(arg, p, [text |-> text, byteLength |-> byteLength])
       /\ UNCHANGED <<opened, sessions, i, remainingBytes, nInfo>>
       /\ IF Len(xferHex) # 8
            THEN /\ Settle(p, FastbootDeviceError(<<"Transfer size overflow">>))
                 /\ UNCHANGED <<session, usb>>
            ELSE /\ session' = SendCommandSession(session, text)
                 /\ usb' = Append(usb, OutCommand(p, text))
                 /\ pc' = Set(pc, p, "sendCommand_transferOut")
                 /\ outcome' = Set(outcome, p, Pending)

\* sendCommand: transferOut resolved; getPackets calls getPacket, which awaits
\* transferIn (lines 488-493, 476, 447)
SendCommandTransferOutDone(p) ==
  /\ pc[p] = "sendCommand_transferOut"
  /\ UNCHANGED nonEngineVars
  /\ pc' = Set(pc, p, "sendCommand_transferIn")
  /\ UNCHANGED <<engineVars, op, arg, i, remainingBytes, nInfo, outcome, calls>>

\* transferData's while loop, lines 571-586, entered with i = idx and
\* remainingBytes = rem after the transfers in `log`: either the next chunk is
\* handed to transferOut, or getPackets starts reading
ChunkLoop(p, idx, rem, log) ==
  /\ i' = Set(i, p, idx)
  /\ remainingBytes' = Set(remainingBytes, p, rem)
  /\ UNCHANGED nInfo
  /\ IF rem > 0
       THEN /\ usb' = Append(log, OutChunk(p, idx * BULK_TRANSFER_SIZE,
                        SliceLength(arg[p].byteLength, idx * BULK_TRANSFER_SIZE,
                                    (idx + 1) * BULK_TRANSFER_SIZE)))
            /\ pc' = Set(pc, p, "chunk_transferOut")
       ELSE /\ usb' = log
            /\ pc' = Set(pc, p, "drain_transferIn")

\* the handshake without the dataLength comparison
TransferDataHandshake_StatusOnly(p, response, log) ==
  IF StatusOf(response) # "DATA"
  THEN /\ Settle(p, FastbootDeviceError(<<"Expected DATA">>))
       /\ usb' = log
       /\ UNCHANGED <<i, remainingBytes, nInfo>>
  ELSE /\ ChunkLoop(p, 0, arg[p].byteLength, log)
       /\ UNCHANGED outcome

\* transferData, lines 555-570: the checks on sendCommand's response
TransferDataHandshake(p, response, log) ==
  IF StatusOf(response) # "DATA"
  THEN /\ Settle(p, FastbootDeviceError(<<"Expected DATA">>))
       /\ usb' = log
       /\ UNCHANGED <<i, remainingBytes, nInfo>>
  ELSE IF response.dataLength # arg[p].byteLength
  THEN /\ Settle(p, FastbootDeviceError(<<"Bootloader wants other length">>))
       /\ usb' = log
       /\ UNCHANGED <<i, remainingBytes, nInfo>>
  ELSE /\ ChunkLoop(p, 0, arg[p].byteLength, log)
       /\ UNCHANGED outcome

\* sendCommand, lines 495-503, once getPackets has returned with session s
SendCommandResult(p, s, log) ==
  IF StatusOf(LastPacketOf(s)) = "FAIL"
  THEN /\ session' = [s EXCEPT !.status = "FAIL"]
       /\ Settle(p, FastbootDeviceError(LastPacketOf(s).message))
       /\ usb' = log
       /\ UNCHANGED <<i, remainingBytes, nInfo>>
  ELSE /\ session' = s
       /\ CASE op[p] = "getVar" ->
                 /\ Settle(p, Returned([message |-> LastPacketOf(s).message]))
                 /\ usb' = log
                 /\ UNCHANGED <<i, remainingBytes, nInfo>>
            [] op[p] = "transferData" -> TransferDataHandshake(p, LastPacketOf(s), log)
            [] OTHER ->
                 /\ Settle(p, Returned(LastPacketOf(s)))
                 /\ usb' = log
                 /\ UNCHANGED <<i, remainingBytes, nInfo>>

\* getPackets / getPacket inside sendCommand: one transferIn resolves with raw
SendCommandGetPacket(p) ==
  /\ pc[p] = "sendCommand_transferIn"
  /\ UNCHANGED nonEngineVars
  /\ \E raw \in WirePackets :
       LET response == DecodePacket(raw)
           log == Append(usb, InPacket(p, raw))
           pushed == [session EXCEPT !.packets = Append(@, response)]
       IN /\ raw.prefix \in {"INFO", "TEXT"} => nInfo < MaxInfo
          /\ IF response = Undefined
               THEN /\ Settle(p, Thrown("Error", <<"invalid packet">>))
                    /\ usb' = log
                    /\ UNCHANGED <<session, i, remainingBytes, nInfo>>
               ELSE IF response.status \in {"INFO", "TEXT"}
               THEN /\ session' = pushed
                    /\ usb' = log
                    /\ nInfo' = nInfo + 1
                    /\ UNCHANGED <<pc, outcome, i, remainingBytes>>
               ELSE SendCommandResult(p, pushed, log)
  /\ UNCHANGED <<opened, sessions, op, arg, calls>>

\* transferData: the transferOut of chunk i resolved, lines 581-584
ChunkTransferOutDone(p) ==
  /\ pc[p] = "chunk_transferOut"
  /\ UNCHANGED nonEngineVars
  /\ ChunkLoop(p, i[p] + 1,
               remainingBytes[p] - SliceLength(arg[p].byteLength, i[p] * BULK_TRANSFER_SIZE,
                                               (i[p] + 1) * BULK_TRANSFER_SIZE),
               usb)
  /\ UNCHANGED <<opened, session, sessions, op, arg, outcome, calls>>

\* transferData, line 586: getPackets after the payload
DrainGetPacket(p) ==
  /\ pc[p] = "drain_transferIn"
  /\ UNCHANGED nonEngineVars
  /\ \E raw \in WirePackets :
       LET response == DecodePacket(raw)
       IN /\ raw.prefix \in {"INFO", "TEXT"} => nInfo < MaxInfo
          /\ usb' = Append(usb, InPacket(p, raw))
          /\ IF response = Undefined
               THEN /\ Settle(p, Thrown("Error", <<"invalid packet">>))
                    /\ UNCHANGED <<session, nInfo>>
               ELSE /\ session' = [session EXCEPT !.packets = Append(@, response)]
                    /\ IF response.status \in {"INFO", "TEXT"}
                         THEN /\ nInfo' = nInfo + 1
                              /\ UNCHANGED <<pc, outcome>>
                         ELSE /\ Settle(p, Returned(Undefined))
                              /\ UNCHANGED nInfo
  /\ UNCHANGED <<opened, sessions, op, arg, i, remainingBytes, calls>>

\* One caller, every call awaited before the next (the orchestrator's use)
Sequential == {1}

Next ==
  \E p \in Sequential :
    \/ Exec(p)
    \/ GetVar(p)
    \/ SendCommand(p)
    \/ TransferData(p)
    \/ DeviceOpen(p)
    \/ SelectConfiguration(p)
    \/ ClaimInterface(p)
    \/ SendCommandTransferOutDone(p)
    \/ SendCommandGetPacket(p)
    \/ ChunkTransferOutDone(p)
    \/ DrainGetPacket(p)

Spec == Init /\ [][Next]_vars

\* exec and getVar called by two callers that do not wait for each other
NextExec ==
  \E p \in Callers :
    \/ Exec(p)
    \/ GetVar(p)
    \/ DeviceOpen(p)
    \/ SelectConfiguration(p)
    \/ ClaimInterface(p)
    \/ SendCommandTransferOutDone(p)
    \/ SendCommandGetPacket(p)

SpecExec == Init /\ [][NextExec]_vars

(***************************************************************************)
(* transferData with buffers of up to 2^36 bytes.  A byteLength is held as *)
(* two limbs, high * 65536 + low, as 2^32 is more than the integers of the *)
(* model hold; the call is followed up to its first await.                 *)
(***************************************************************************)
Limb == 65536
Length(high, low) == [high |-> high, low |-> low]
LargeLengths ==
  {Length(0, 0), Length(0, 40000), Length(0, 65535), Length(1, 0), Length(4096, 1),
   Length(65535, 65535), Length(65536, 0), Length(65536, 1), Length(1048576, 0)}

\* n.toString(16)
ToString16Limbs(n) ==
  IF n.high = 0 THEN ToString16(n.low)
  ELSE ToString16(n.high) \o PadStart(ToString16(n.low), 4, "0")

\* xferHex of a length cut to 32 bits
XferHexLimbs_Uint32(n) ==
  PadStart(ToString16Limbs(Length(n.high % Limb, n.low)), 8, "0")
\* transferData's xferHex, line 544
XferHexLimbs(n) == PadStart(ToString16Limbs(n), 8, "0")

\* transferData(buffer), lines 542-553
TransferDataLarge(p) ==
  \E byteLength \in LargeLengths :
    LET xferHex == XferHexLimbs(byteLength)
        text == <<"download:">> \o xferHex
    IN /\ pc[p] = "idle"
       /\ UNCHANGED nonEngineVars
       /\ calls < MaxCalls
       /\ calls' = calls + 1
       /\ op' = Set(op, p, "transferData")
       /\ arg' = Set(arg, p, [text |-> text, byteLength |-> byteLength])
       /\ UNCHANGED <<opened, sessions, i, remainingBytes, nInfo>>
       /\ IF Len(xferHex) # 8
            THEN /\ Settle(p, FastbootDeviceError(<<"Transfer size overflow">>))
                 /\ UNCHANGED <<session, usb>>
            ELSE /\ session' = SendCommandSession(session, text)
                 /\ usb' = Append(usb, OutCommand(p, text))
                 /\ pc' = Set(pc, p, "sendCommand_transferOut")
                 /\ outcome' = Set(outcome, p, Pending)

NextXfer == \E p \in Callers : TransferDataLarge(p)

SpecXfer == Init /\ [][NextXfer]_vars

(***************************************************************************)
(* reconnect() and waitForReconnect().  The call is suspended at wpc:      *)
(* "getDevices" (navigator.usb.getDevices() has not listed the devices     *)
(* yet), "getDevicesDone" (the list is taken, the promise not yet          *)
(* resolved), "open" / "selectConfiguration" / "claimInterface" (inside    *)
(* connect()), "sleep3000" / "sleep30000" (the timers) and "waitEvent"     *)
(* (the promise that the connect listener settles).                        *)
(***************************************************************************)
engineCallVars == <<session, sessions, usb, pc, op, arg, i, remainingBytes, nInfo,
                    outcome, calls, runVars, parseVars>>

LogEntry(ev, result) == [ev |-> ev, result |-> result]
Attempt == LogEntry("reconnect", "pending")
\* the log with the result of the running reconnect() filled in
WithResult(log, result) == [log EXCEPT ![Len(log)].result = result]

\* this.reconnect() is called as attempt t: it awaits getDevices()
StartReconnect(t, log) ==
  /\ tier' = t
  /\ wlog' = Append(log, Attempt)
  /\ wpc' = "getDevices"

\* the first catch block, lines 405-408 (it catches everything)
Pause3000(log) ==
  /\ wlog' = Append(log, LogEntry("setTimeout(3000)", ""))
  /\ wpc' = "sleep3000"

\* waitForReconnect(), lines 401-404
WaitForReconnect ==
  /\ wpc = "idle"
  /\ waitCalls < MaxWaitCalls
  /\ waitCalls' = waitCalls + 1
  /\ wresult' = Pending
  /\ IF loggerCallable
       THEN StartReconnect(1, <<>>)
       ELSE \* this.logger(...) throws TypeError inside the try block
            /\ Pause3000(<<>>)
            /\ tier' = 1
  /\ UNCHANGED <<opened, engineCallVars, bindVars, loggerCallable, devices, listener,
                 connectEvents, plugs>>

\* the running reconnect() returned true: waitForReconnect returns it, or the
\* listener resolves the promise with true
ReconnectSucceeded ==
  /\ wlog' = WithResult(wlog, "true")
  /\ wresult' = Returned(TrueValue)
  /\ wpc' = "idle"
  /\ UNCHANGED <<tier, listener>>

\* the running reconnect() threw `error`: the catch block of its tier
ReconnectFailed(error) ==
  LET log == WithResult(wlog, error) IN
  CASE tier = 1 ->
         /\ Pause3000(log)
         /\ UNCHANGED <<tier, listener, wresult>>
    [] tier = 2 ->
         IF error = "FastbootUsbConnectionError"
         THEN /\ wlog' = Append(log, LogEntry("setTimeout(30000)", ""))
              /\ wpc' = "sleep30000"
              /\ UNCHANGED <<tier, listener, wresult>>
         ELSE /\ wlog' = log
              /\ wpc' = "idle"
              /\ wresult' = Thrown(error, <<>>)
              /\ UNCHANGED <<tier, listener>>
    [] tier = 3 ->
         IF error = "FastbootUsbConnectionError"
         THEN /\ wlog' = Append(log, LogEntry("addEventListener", ""))
              /\ listener' = TRUE
              /\ wpc' = "waitEvent"
              /\ UNCHANGED <<tier, wresult>>
         ELSE \* nothing rethrows: the function ends without a return value
              /\ wlog' = log
              /\ wpc' = "idle"
              /\ wresult' = Returned(Undefined)
              /\ UNCHANGED <<tier, listener>>
    [] OTHER ->
         /\ wlog' = log
         /\ wpc' = "idle"
         /\ wresult' = Thrown(error, <<>>)
         /\ UNCHANGED <<tier, listener>>

\* navigator.usb.getDevices() lists the devices
GetDevicesEnumerate ==
  /\ wpc = "getDevices"
  /\ devices' = visible
  /\ wpc' = "getDevicesDone"
  /\ UNCHANGED <<opened, engineCallVars, bindVars, loggerCallable, tier, listener,
                 connectEvents, wlog, wresult, waitCalls, plugs>>

\* reconnect() that takes any listed device, whatever its serial number
GetDevicesResolve_AnySerial ==
  /\ wpc = "getDevicesDone"
  /\ LET matching == devices IN
     IF matching = {}
     THEN /\ ReconnectFailed("FastbootUsbConnectionError")
          /\ UNCHANGED <<opened, device, epIn, epOut>>
     ELSE \E d \in matching :
            LET bound == Setup(d, epIn, epOut)
                isOpen == IF d = device THEN opened ELSE FALSE
            IN /\ device' = d
               /\ opened' = isOpen
               /\ epIn' = bound.in
               /\ epOut' = bound.out
               /\ IF ~bound.ok
                    THEN ReconnectFailed("Error")
                    ELSE /\ wpc' = IF isOpen THEN "selectConfiguration" ELSE "open"
                         /\ UNCHANGED <<tier, listener, wlog, wresult>>
  /\ UNCHANGED <<engineCallVars, visible, serialNumber, loggerCallable, devices,
                 connectEvents, waitCalls, plugs>>

\* reconnect(), lines 387-396, once getDevices() has resolved: the first
\* listed device with the serial number is bound, set up and connected
GetDevicesResolve ==
  /\ wpc = "getDevicesDone"
  /\ LET matching == {d \in devices : SerialOf(d) = serialNumber} IN
     IF matching = {}
     THEN /\ ReconnectFailed("FastbootUsbConnectionError")
          /\ UNCHANGED <<opened, device, epIn, epOut>>
     ELSE \E d \in matching :
            LET bound == Setup(d, epIn, epOut)
                isOpen == IF d = device THEN opened ELSE FALSE
            IN /\ device' = d
               /\ opened' = isOpen
               /\ epIn' = bound.in
               /\ epOut' = bound.out
               /\ IF ~bound.ok
                    THEN ReconnectFailed("Error")
                    ELSE /\ wpc' = IF isOpen THEN "selectConfiguration" ELSE "open"
                         /\ UNCHANGED <<tier, listener, wlog, wresult>>
  /\ UNCHANGED <<engineCallVars, visible, serialNumber, loggerCallable, devices,
                 connectEvents, waitCalls, plugs>>

\* connect() inside reconnect(): device.open() resolves or rejects
ReconnectOpen ==
  /\ wpc = "open"
  /\ \E ok \in BOOLEAN :
       IF ok THEN /\ opened' = TRUE
                  /\ wpc' = "selectConfiguration"
                  /\ UNCHANGED <<tier, listener, wlog, wresult>>
             ELSE /\ ReconnectFailed("NetworkError")
                  /\ UNCHANGED opened
  /\ UNCHANGED <<engineCallVars, bindVars, loggerCallable, devices, connectEvents,
                 waitCalls, plugs>>

\* connect(): device.selectConfiguration(1) resolves or rejects
ReconnectSelectConfiguration ==
  /\ wpc = "selectConfiguration"
  /\ \E ok \in BOOLEAN :
       IF ok THEN /\ wpc' = "claimInterface"
                  /\ UNCHANGED <<tier, listener, wlog, wresult>>
             ELSE ReconnectFailed("NetworkError")
  /\ UNCHANGED <<opened, engineCallVars, bindVars, loggerCallable, devices,
                 connectEvents, waitCalls, plugs>>

\* connect(): device.claimInterface(0) resolves or rejects
ReconnectClaimInterface ==
  /\ wpc = "claimInterface"
  /\ \E ok \in BOOLEAN :
       IF ok THEN ReconnectSucceeded ELSE ReconnectFailed("NetworkError")
  /\ UNCHANGED <<opened, engineCallVars, bindVars, loggerCallable, devices,
                 connectEvents, waitCalls, plugs>>

\* the 3 second timer fires: the second try block, line 411
Timer3000 ==
  /\ wpc = "sleep3000"
  /\ StartReconnect(2, wlog)
  /\ UNCHANGED <<opened, engineCallVars, bindVars, loggerCallable, devices, listener,
                 connectEvents, wresult, waitCalls, plugs>>

\* the 30 second timer fires: the third try block, line 423
Timer30000 ==
  /\ wpc = "sleep30000"
  /\ StartReconnect(3, wlog)
  /\ UNCHANGED <<opened, engineCallVars, bindVars, loggerCallable, devices, listener,
                 connectEvents, wresult, waitCalls, plugs>>

\* a device is plugged in: the host queues a "connect" event
Plug ==
  \E d \in DeviceIds \ visible :
    /\ plugs < MaxPlugs
    /\ plugs' = plugs + 1
    /\ visible' = visible \cup {d}
    /\ connectEvents' = connectEvents + 1
    /\ UNCHANGED <<opened, engineCallVars, device, serialNumber, epIn, epOut,
                   loggerCallable, wpc, tier, devices, listener, wlog, wresult, waitCalls>>

\* a device is unplugged; the handle held on it is closed
Unplug ==
  \E d \in visible :
    /\ plugs < MaxPlugs
    /\ plugs' = plugs + 1
    /\ visible' = visible \ {d}
    /\ opened' = IF d = device THEN FALSE ELSE opened
    /\ UNCHANGED <<engineCallVars, device, serialNumber, epIn, epOut, loggerCallable,
                   wpc, tier, devices, listener, connectEvents, wlog, wresult, waitCalls>>

\* a queued "connect" event is dispatched: the once-listener of lines 430-437,
\* if registered, is removed and calls reconnect()
DispatchConnect ==
  /\ connectEvents > 0
  /\ connectEvents' = connectEvents - 1
  /\ IF listener
       THEN /\ listener' = FALSE
            /\ StartReconnect(4, Append(wlog, LogEntry("connect", "")))
       ELSE UNCHANGED <<listener, tier, wlog, wpc>>
  /\ UNCHANGED <<opened, engineCallVars, bindVars, loggerCallable, devices, wresult,
                 waitCalls, plugs>>

\* waitForReconnect after a command that makes the phone re-enumerate
InitWait ==
  /\ Constructed
  /\ opened \in BOOLEAN
  /\ visible \in {v \in SUBSET DeviceIds : 1 \in v}
  /\ loggerCallable \in BOOLEAN
  /\ archive = {}
  /\ nestedInfo = FALSE
  /\ flashAllSh = <<>>
  /\ ptext = NoTexts
  /\ presult = NotParsed
  /\ script = <<>>

\* a FastbootDevice constructed on any device its constructor accepts
InitBind ==
  /\ \E d \in DeviceIds :
       /\ Setup(d, Undefined, Undefined).ok
       /\ ConstructedOn(d)
       /\ visible \in {v \in SUBSET DeviceIds : d \in v}
  /\ opened = FALSE
  /\ loggerCallable = FALSE
  /\ archive = {}
  /\ nestedInfo = FALSE
  /\ flashAllSh = <<>>
  /\ ptext = NoTexts
  /\ presult = NotParsed
  /\ script = <<>>

NextWait ==
  \/ WaitForReconnect
  \/ GetDevicesEnumerate
  \/ GetDevicesResolve
  \/ ReconnectOpen
  \/ ReconnectSelectConfiguration
  \/ ReconnectClaimInterface
  \/ Timer3000
  \/ Timer30000
  \/ Plug
  \/ Unplug
  \/ DispatchConnect

SpecWait == InitWait /\ [][NextWait]_vars

SpecBind == InitBind /\ [][NextWait]_vars

\* every promise the call awaits settles, every timer fires and every queued
\* event is dispatched; nothing makes a device get plugged in or unplugged
WaitFairness ==
  /\ WF_vars(GetDevicesEnumerate)
  /\ WF_vars(GetDevicesResolve)
  /\ WF_vars(ReconnectOpen)
  /\ WF_vars(ReconnectSelectConfiguration)
  /\ WF_vars(ReconnectClaimInterface)
  /\ WF_vars(Timer3000)
  /\ WF_vars(Timer30000)
  /\ WF_vars(DispatchConnect)

SpecWaitFair == InitWait /\ [][NextWait]_vars /\ WaitFairness

(***************************************************************************)
(* Script text.  A line is a sequence of one-character strings; a script is *)
(* the sequence of lines that text.split("\n") yields.                      *)
(***************************************************************************)
IsSpace(c) == c \in {" ", "\t"}

\* String.prototype.slice(0, n) and slice(n)
Take(s, n) == SubSeq(s, 1, IF n < Len(s) THEN n ELSE Len(s))
Drop(s, n) == SubSeq(s, n + 1, Len(s))

RECURSIVE TrimStart(_)
TrimStart(s) == IF s # <<>> /\ IsSpace(Head(s)) THEN TrimStart(Tail(s)) ELSE s
RECURSIVE TrimEnd(_)
TrimEnd(s) == IF s # <<>> /\ IsSpace(s[Len(s)]) THEN TrimEnd(SubSeq(s, 1, Len(s) - 1)) ELSE s
\* String.prototype.trim
Trim(s) == TrimEnd(TrimStart(s))

\* text.split(/\s+/).map(trim).filter(x => x !== ""): `cur` is the word being
\* read, `acc` the words read
RECURSIVE SplitWords(_, _, _)
SplitWords(s, cur, acc) ==
  LET flushed == IF cur = <<>> THEN acc ELSE Append(acc, cur) IN
  IF s = <<>> THEN flushed
  ELSE IF IsSpace(Head(s)) THEN SplitWords(Tail(s), <<>>, flushed)
  ELSE SplitWords(Tail(s), Append(cur, Head(s)), acc)

\* word.split("=")[1]: the text between the first and the second "=";
\* <<>> stands for undefined and for the empty string (both are falsy)
RECURSIVE UpToEquals(_)
UpToEquals(s) ==
  IF s = <<>> \/ Head(s) = "=" THEN <<>> ELSE <<Head(s)>> \o UpToEquals(Tail(s))
RECURSIVE AfterEquals(_)
AfterEquals(s) ==
  IF s = <<>> THEN <<>>
  ELSE IF Head(s) = "=" THEN UpToEquals(Tail(s))
  ELSE AfterEquals(Tail(s))

COMMAND_NAMES ==
  {<<"u", "p", "d", "a", "t", "e">>, <<"f", "l", "a", "s", "h", "a", "l", "l">>, <<"f", "l", "a", "s", "h">>, <<"f", "l", "a", "s", "h", "i", "n", "g">>, <<"e", "r", "a", "s", "e">>, <<"f", "o", "r", "m", "a", "t">>, <<"g", "e", "t", "v", "a", "r">>, <<"s", "e", "t", "_", "a", "c", "t", "i", "v", "e">>,
   <<"b", "o", "o", "t">>, <<"d", "e", "v", "i", "c", "e", "s">>, <<"c", "o", "n", "t", "i", "n", "u", "e">>, <<"r", "e", "b", "o", "o", "t">>, <<"r", "e", "b", "o", "o", "t", "-", "b", "o", "o", "t", "l", "o", "a", "d", "e", "r">>, <<"s", "l", "e", "e", "p">>, <<"o", "e", "m">>, <<"h", "e", "l", "p">>}

isCommandName(word) == word \in COMMAND_NAMES


\* the body of parseInstruction's for loop, lines 109-146
ParseWord(st, word) ==
  IF st.error # "" THEN st
  ELSE IF word[1] = "-" THEN
    IF word = <<"-", "w">> \/ word = <<"-", "-", "w", "i", "p", "e">> THEN [st EXCEPT !.options.wipe = TRUE]
    ELSE IF word = <<"-", "-", "s", "e", "t", "-", "a", "c", "t", "i", "v", "e", "=", "o", "t", "h", "e", "r">> THEN [st EXCEPT !.options.setActive = <<"o", "t", "h", "e", "r">>]
    ELSE IF word = <<"-", "-", "s", "e", "t", "-", "a", "c", "t", "i", "v", "e", "=", "a">> \/ word = <<"-", "-", "s", "e", "t", "-", "a", "c", "t", "i", "v", "e", "=", "b">>
      THEN [st EXCEPT !.options.setActive = <<word[Len(word)]>>]
    ELSE IF word = <<"-", "-", "s", "l", "o", "t", "-", "o", "t", "h", "e", "r">> THEN [st EXCEPT !.options.slot = <<"o", "t", "h", "e", "r">>]
    ELSE IF Take(word, 6) = <<"-", "-", "s", "l", "o", "t">> THEN
      LET slot == AfterEquals(word) IN
      IF slot = <<>> THEN [st EXCEPT !.error = "--slot requires a value"]
      ELSE IF slot \notin {<<"c", "u", "r", "r", "e", "n", "t">>, <<"o", "t", "h", "e", "r">>, <<"a">>, <<"b">>}
        THEN [st EXCEPT !.error = "unknown slot"]
      ELSE [st EXCEPT !.options.slot = slot]
    ELSE IF word = <<"-", "-", "s", "k", "i", "p", "-", "r", "e", "b", "o", "o", "t">> THEN [st EXCEPT !.options.skipReboot = TRUE]
    ELSE IF word = <<"-", "-", "a", "p", "p", "l", "y", "-", "v", "b", "m", "e", "t", "a">> THEN [st EXCEPT !.options.applyVbmeta = TRUE]
    ELSE st
  ELSE IF st.command # <<>> THEN [st EXCEPT !.args = Append(@, word)]
  ELSE IF ~isCommandName(word) THEN [st EXCEPT !.error = "Unknown command"]
  ELSE [st EXCEPT !.command = word]

RECURSIVE ParseWords(_, _)
ParseWords(st, words) ==
  IF words = <<>> THEN st ELSE ParseWords(ParseWord(st, Head(words)), Tail(words))

\* parseInstruction(text): the Instruction, or error # "" when it throws
parseInstruction(text) ==
  LET stripped == IF Take(text, 8) = <<"f", "a", "s", "t", "b", "o", "o", "t">> THEN Trim(Drop(text, 8)) ELSE text
      st == ParseWords(ParseStart, SplitWords(stripped, <<>>, <<>>))
  IN IF st.error = "" /\ st.command = <<>> THEN [st EXCEPT !.error = "Missing command"]
     ELSE st

\* parseInstructions that returns the instructions before the first line
\* parseInstruction throws on
RECURSIVE ParseLines_UpToError(_)
ParseLines_UpToError(lines) ==
  IF lines = <<>> THEN [instructions |-> <<>>, error |-> ""]
  ELSE LET x == Trim(Head(lines)) IN
       IF x = <<>> \/ x[1] = "#" THEN ParseLines_UpToError(Tail(lines))
       ELSE LET first == parseInstruction(x)
                rest == ParseLines_UpToError(Tail(lines))
            IN IF first.error # "" THEN [instructions |-> <<>>, error |-> ""]
               ELSE [instructions |->
                       <<[command |-> first.command, args |-> first.args,
                          options |-> first.options]>> \o rest.instructions,
                     error |-> ""]

\* parseInstructions(text), for text given as its lines: the instructions, or
\* error # "" when a line makes parseInstruction throw
RECURSIVE ParseLines(_)
ParseLines(lines) ==
  IF lines = <<>> THEN [instructions |-> <<>>, error |-> ""]
  ELSE LET x == Trim(Head(lines)) IN
       IF x = <<>> \/ x[1] = "#" THEN ParseLines(Tail(lines))
       ELSE LET first == parseInstruction(x)
                rest == ParseLines(Tail(lines))
            IN IF first.error # "" THEN [instructions |-> <<>>, error |-> first.error]
               ELSE IF rest.error # "" THEN rest
               ELSE [instructions |->
                       <<[command |-> first.command, args |-> first.args,
                          options |-> first.options]>> \o rest.instructions,
                     error |-> ""]
parseInstructions(lines) == ParseLines(lines)


\* lines that parse, as their tokens
BaseTokens ==
  {<<<<"f", "a", "s", "t", "b", "o", "o", "t">>, <<"f", "l", "a", "s", "h">>, <<"b", "o", "o", "t">>, <<"b", "o", "o", "t", ".", "i", "m", "g">>>>,
   <<<<"f", "a", "s", "t", "b", "o", "o", "t">>, <<"r", "e", "b", "o", "o", "t", "-", "b", "o", "o", "t", "l", "o", "a", "d", "e", "r">>, <<"-", "-", "s", "e", "t", "-", "a", "c", "t", "i", "v", "e", "=", "a">>>>,
   <<<<"f", "a", "s", "t", "b", "o", "o", "t">>, <<"-", "w">>, <<"u", "p", "d", "a", "t", "e">>, <<"i", "m", "a", "g", "e", ".", "z", "i", "p">>>>,
   <<<<"f", "a", "s", "t", "b", "o", "o", "t">>, <<"e", "r", "a", "s", "e">>, <<"-", "-", "s", "l", "o", "t", "=", "b">>, <<"m", "i", "s", "c">>>>,
   <<<<"s", "l", "e", "e", "p">>, <<"5">>>>}
\* tokens that start with "-" and are none of -w, --wipe, --set-active=other|a|b,
\* --slot-other, --slot=<value>, --skip-reboot, --apply-vbmeta
UnknownOptions ==
  {<<"-", "-", "f", "o", "r", "c", "e">>, <<"-", "S">>, <<"-", "w", "w">>, <<"-", "-", "s", "e", "t", "-", "a", "c", "t", "i", "v", "e", "=", "c">>, <<"-", "-", "s", "e", "t", "-", "a", "c", "t", "i", "v", "e">>, <<"-", "-", "s", "k", "i", "p", "-", "r", "e", "b", "o", "o", "t", "s">>,
   <<"-", "-", "s", "l", "o", "t", "s">>, <<"-", "-", "s", "l", "o", "t", "-", "c", "o", "u", "n", "t", "=", "2">>, <<"-", "-", "s", "l", "o", "t", "-", "s", "u", "f", "f", "i", "x", "=", "a">>}

RECURSIVE JoinWords(_)
JoinWords(words) ==
  IF words = <<>> THEN <<>>
  ELSE IF Len(words) = 1 THEN Head(words)
  ELSE Head(words) \o <<" ">> \o JoinWords(Tail(words))
\* the tokens with tok put after the first pos of them
InsertAfter(words, pos, tok) ==
  SubSeq(words, 1, pos) \o <<tok>> \o SubSeq(words, pos + 1, Len(words))
\* the token goes anywhere in the line, after the word fastboot if it has one
TextPairs ==
  {[with |-> JoinWords(InsertAfter(words, pos, tok)), without |-> JoinWords(words)] :
     <<words, pos, tok>> \in
       {t \in BaseTokens \X (0..4) \X UnknownOptions :
          /\ t[2] <= Len(t[1])
          /\ (t[1][1] = <<"f", "a", "s", "t", "b", "o", "o", "t">> => t[2] >= 1)}}

ParseInstruction ==
  /\ ~presult.done
  /\ presult' = [done |-> TRUE, with |-> parseInstruction(ptext.with),
                  without |-> parseInstruction(ptext.without)]
  /\ UNCHANGED <<ptext, deviceVars, runVars>>

InitParse ==
  /\ Constructed
  /\ opened = FALSE
  /\ visible = {1}
  /\ loggerCallable = FALSE
  /\ archive = {}
  /\ nestedInfo = FALSE
  /\ flashAllSh = <<>>
  /\ script = <<>>
  /\ ptext \in TextPairs
  /\ presult = NotParsed

NextParse == ParseInstruction

SpecParse == InitParse /\ [][NextParse]_vars

(***************************************************************************)
(* FastbootFlasher.run.  Every promise run awaits is one entry of rlog:    *)
(* the call, what it was given, and whether it is pending, fulfilled       *)
(* ("ok") or rejected ("failed").  The client's methods and the zip        *)
(* reader are called, not modelled: a call is fulfilled or rejected.       *)
(***************************************************************************)
\* the lines scripts are made of
Lines ==
  {<<"f", "a", "s", "t", "b", "o", "o", "t", " ", "f", "l", "a", "s", "h", " ", "b", "o", "o", "t", " ", "b", "o", "o", "t", ".", "i", "m", "g", " ", "-", "-", "s", "l", "o", "t", "=", "o", "t", "h", "e", "r">>,
   <<"f", "a", "s", "t", "b", "o", "o", "t", " ", "f", "l", "a", "s", "h", " ", "-", "-", "a", "p", "p", "l", "y", "-", "v", "b", "m", "e", "t", "a", " ", "v", "b", "m", "e", "t", "a", " ", "m", "i", "s", "s", "i", "n", "g", ".", "i", "m", "g">>,
   <<"f", "a", "s", "t", "b", "o", "o", "t", " ", "f", "l", "a", "s", "h", " ", "b", "o", "o", "t">>,
   <<"f", "a", "s", "t", "b", "o", "o", "t", " ", "f", "l", "a", "s", "h", " ", "-", "-", "s", "l", "o", "t", " ", "b", "o", "o", "t", " ", "b", "o", "o", "t", ".", "i", "m", "g">>,
   <<"f", "a", "s", "t", "b", "o", "o", "t", " ", "r", "e", "b", "o", "o", "t", "-", "b", "o", "o", "t", "l", "o", "a", "d", "e", "r">>,
   <<"f", "a", "s", "t", "b", "o", "o", "t", " ", "-", "-", "s", "e", "t", "-", "a", "c", "t", "i", "v", "e", "=", "a", " ", "r", "e", "b", "o", "o", "t", "-", "b", "o", "o", "t", "l", "o", "a", "d", "e", "r">>,
   <<"f", "a", "s", "t", "b", "o", "o", "t", " ", "r", "e", "b", "o", "o", "t", "-", "b", "o", "o", "t", "l", "o", "a", "d", "e", "r", " ", "-", "-", "s", "e", "t", "-", "a", "c", "t", "i", "v", "e", "=", "o", "t", "h", "e", "r">>,
   <<"f", "a", "s", "t", "b", "o", "o", "t", " ", "-", "w", " ", "u", "p", "d", "a", "t", "e", " ", "i", "m", "a", "g", "e", ".", "z", "i", "p">>,
   <<" ", " ", "f", "a", "s", "t", "b", "o", "o", "t", " ", " ", " ", "f", "l", "a", "s", "h", "i", "n", "g", " ", " ", " ", "u", "n", "l", "o", "c", "k", " ">>,
   <<"f", "a", "s", "t", "b", "o", "o", "t", " ", "f", "l", "a", "s", "h", "i", "n", "g">>,
   <<"f", "a", "s", "t", "b", "o", "o", "t", " ", "g", "e", "t", "v", "a", "r", " ", "p", "r", "o", "d", "u", "c", "t">>,
   <<"f", "a", "s", "t", "b", "o", "o", "t", " ", "e", "r", "a", "s", "e", " ", "m", "i", "s", "c">>,
   <<"s", "l", "e", "e", "p", " ", "5">>,
   <<"f", "a", "s", "t", "b", "o", "o", "t", " ", "o", "e", "m", " ", "f", "b", "_", "m", "o", "d", "e", "_", "s", "e", "t">>,
   <<"f", "a", "s", "t", "b", "o", "o", "t", " ", "d", "e", "v", "i", "c", "e", "s">>,
   <<"#", " ", "f", "a", "s", "t", "b", "o", "o", "t", " ", "e", "r", "a", "s", "e", " ", "u", "s", "e", "r", "d", "a", "t", "a">>,
   <<"f", "r", "o", "b", "n", "i", "c", "a", "t", "e">>,
   <<"f", "a", "s", "t", "b", "o", "o", "t">>,
   <<"f", "a", "s", "t", "b", "o", "o", "t", " ", "e", "r", "a", "s", "e", " ", "-", "-", "s", "l", "o", "t", "=", "c", " ", "m", "i", "s", "c">>}

RECURSIVE ScriptsOfLength(_)
ScriptsOfLength(n) ==
  IF n = 0 THEN {<<>>}
  ELSE {Append(s, l) : s \in ScriptsOfLength(n - 1), l \in Lines}
\* the texts given to run, as their lines
Scripts == UNION {ScriptsOfLength(n) : n \in 0..MaxLines}

\* the entries of the factory zip the flasher may be constructed with
FileEntry(filename) == [filename |-> filename, directory |-> FALSE]
DirectoryEntry(filename) == [filename |-> filename, directory |-> TRUE]
Archives ==
  {{},
   {DirectoryEntry(<<"f", "a", "c", "t", "o", "r", "y", "/">>), FileEntry(<<"f", "a", "c", "t", "o", "r", "y", "/", "b", "o", "o", "t", ".", "i", "m", "g">>)},
   {DirectoryEntry(<<"f", "a", "c", "t", "o", "r", "y", "/">>), FileEntry(<<"f", "a", "c", "t", "o", "r", "y", "/", "b", "o", "o", "t", ".", "i", "m", "g">>),
    FileEntry(<<"f", "a", "c", "t", "o", "r", "y", "\\", "\\", "i", "m", "a", "g", "e", ".", "z", "i", "p">>)}}

isFileEntry(entry) == ~entry.directory

\* e.filename.split(/[\\/]/).pop(): `cur` is the segment being read
RECURSIVE LastSegment(_, _)
LastSegment(s, cur) ==
  IF s = <<>> THEN cur
  ELSE IF Head(s) \in {"/", "\\"} THEN LastSegment(Tail(s), <<>>)
  ELSE LastSegment(Tail(s), Append(cur, Head(s)))

\* getEntry(entries, filename) returns an entry (it throws otherwise)
HasEntry(entries, filename) ==
  \E e \in entries : LastSegment(e.filename, <<>>) = filename

\* requireArg(command, args, index) returns (it throws otherwise); index from 0
HasArg(args, index) == Len(args) > index

\* parseInt(s) for a word s: its leading decimal digits, NaN without any
DecimalDigits == <<"0", "1", "2", "3", "4", "5", "6", "7", "8", "9">>
IsDecimalDigit(c) == \E k \in 1..10 : DecimalDigits[k] = c
DecimalValue(c) == (CHOOSE k \in 1..10 : DecimalDigits[k] = c) - 1
RECURSIVE ParseDigits(_, _)
ParseDigits(s, n) ==
  IF s = <<>> \/ ~IsDecimalDigit(Head(s)) THEN n
  ELSE ParseDigits(Tail(s), n * 10 + DecimalValue(Head(s)))
NaN == [nan |-> TRUE, value |-> 0]
Number(n) == [nan |-> FALSE, value |-> n]
parseInt(s) ==
  IF s = <<>> \/ ~IsDecimalDigit(Head(s)) THEN NaN ELSE Number(ParseDigits(s, 0))
Times(x, n) == IF x.nan THEN NaN ELSE Number(x.value * n)

\* one awaited call: name, the arguments it was given, and its state
Call(name, a, slot, flag, ms) ==
  [call |-> name, arg |-> a, slot |-> slot, flag |-> flag, ms |-> ms, state |-> "pending"]
Call0(name) == Call(name, <<>>, <<>>, FALSE, Number(0))
Call1(name, a) == Call(name, a, <<>>, FALSE, Number(0))
\* a throw statement
Throw(message) ==
  [call |-> "throw", arg |-> <<>>, slot |-> <<>>, flag |-> FALSE, ms |-> Number(0),
   state |-> message]
IsThrow(s) == s.call = "throw"

\* reboot-bootloader with the slot switch made after the reboot
SetActiveAfterReboot(c, reboot) ==
  IF c.options.setActive = <<"o", "t", "h", "e", "r">> THEN reboot \o <<Call0("client.setActiveOtherSlot")>>
  ELSE IF c.options.setActive = <<"a">> THEN reboot \o <<Call1("client.fd.exec", <<"s", "e", "t", "_", "a", "c", "t", "i", "v", "e", ":", "a">>)>>
  ELSE IF c.options.setActive = <<"b">> THEN reboot \o <<Call1("client.fd.exec", <<"s", "e", "t", "_", "a", "c", "t", "i", "v", "e", ":", "b">>)>>
  ELSE reboot
\* reboot-bootloader, lines 212-219: the slot switch, then the reboot
SetActiveThenReboot(c, reboot) ==
  IF c.options.setActive = <<"o", "t", "h", "e", "r">> THEN <<Call0("client.setActiveOtherSlot")>> \o reboot
  ELSE IF c.options.setActive = <<"a">> THEN <<Call1("client.fd.exec", <<"s", "e", "t", "_", "a", "c", "t", "i", "v", "e", ":", "a">>)>> \o reboot
  ELSE IF c.options.setActive = <<"b">> THEN <<Call1("client.fd.exec", <<"s", "e", "t", "_", "a", "c", "t", "i", "v", "e", ":", "b">>)>> \o reboot
  ELSE reboot

\* the body of run's for loop for the instruction c, lines 196-279: the
\* promises it awaits, in order, ending with a throw statement if it reaches one
Body(c, entries, nested) ==
  IF c.command = <<"f", "l", "a", "s", "h">> THEN
    IF ~HasArg(c.args, 0) THEN <<Throw("Missing argument 1")>>
    ELSE IF ~HasArg(c.args, 1) THEN <<Throw("Missing argument 2")>>
    ELSE IF ~HasEntry(entries, c.args[2]) THEN <<Throw("not found in zip")>>
    ELSE <<Call1("entry.getData", c.args[2]),
           Call("client.doFlash", c.args[1],
                IF c.options.slot = <<>> THEN <<"c", "u", "r", "r", "e", "n", "t">> ELSE c.options.slot,
                c.options.applyVbmeta, Number(0))>>
  ELSE IF c.command = <<"r", "e", "b", "o", "o", "t", "-", "b", "o", "o", "t", "l", "o", "a", "d", "e", "r">> THEN
    SetActiveThenReboot(c, <<Call0("client.rebootBootloader")>>)
  ELSE IF c.command = <<"u", "p", "d", "a", "t", "e">> THEN
    IF ~HasArg(c.args, 0) THEN <<Throw("Missing argument 1")>>
    ELSE IF ~HasEntry(entries, c.args[1]) THEN <<Throw("not found in zip")>>
    ELSE <<Call1("nestedZipEntry.getData", c.args[1]), Call0("zipReader.getEntries")>>
         \o (IF ~nested
               THEN <<Throw("fastboot-info.txt not found in nested zip")>>
               ELSE <<Call0("fastbootInfoFile.getData"),
                      Call("client.fastbootInfo", <<>>, <<>>, c.options.wipe, Number(0))>>)
  ELSE IF c.command = <<"f", "l", "a", "s", "h", "i", "n", "g">> THEN
    IF HasArg(c.args, 0) /\ c.args[1] = <<"l", "o", "c", "k">> THEN <<Call0("client.lock")>>
    ELSE IF HasArg(c.args, 0) /\ c.args[1] = <<"u", "n", "l", "o", "c", "k">> THEN <<Call0("client.unlock")>>
    ELSE <<Throw("Unknown command")>>
  ELSE IF c.command = <<"g", "e", "t", "v", "a", "r">> THEN
    IF ~HasArg(c.args, 0) THEN <<Throw("Missing argument 1")>>
    ELSE <<Call1("client.getVar", c.args[1])>>
  ELSE IF c.command = <<"e", "r", "a", "s", "e">> THEN
    IF ~HasArg(c.args, 0) THEN <<Throw("Missing argument 1")>>
    ELSE <<Call1("client.erase", c.args[1])>>
  ELSE IF c.command = <<"s", "l", "e", "e", "p">> THEN
    <<Call("setTimeout", <<>>, <<>>, FALSE,
           IF HasArg(c.args, 0) THEN Times(parseInt(c.args[1]), 1000) ELSE Number(5000))>>
  ELSE IF c.command = <<"o", "e", "m">> THEN
    IF HasArg(c.args, 0) /\ c.args[1] \in {<<"f", "b", "_", "m", "o", "d", "e", "_", "s", "e", "t">>, <<"f", "b", "_", "m", "o", "d", "e", "_", "c", "l", "e", "a", "r">>}
      THEN <<Call("setTimeout", <<>>, <<>>, FALSE, Number(10))>>
      ELSE <<Throw("Fastboot oem command not implemented")>>
  ELSE <<Throw("Fastboot command not implemented")>>

\* run goes on after the step-th await of instruction ip: where it suspends
\* next, or how it ends
RECURSIVE Continue(_, _, _, _)
Continue(cmds, k, j, log) ==
  IF k > Len(cmds) THEN
    [rpc |-> "idle", ip |-> k, step |-> 0, rlog |-> log, rresult |-> Returned(Undefined)]
  ELSE
    LET body == Body(cmds[k], {e \in archive : isFileEntry(e)}, nestedInfo) IN
    IF j >= Len(body) THEN Continue(cmds, k + 1, 0, log)
    ELSE IF IsThrow(body[j + 1]) THEN
      [rpc |-> "idle", ip |-> k, step |-> j, rlog |-> log,
       rresult |-> Thrown("Error", body[j + 1].state)]
    ELSE
      [rpc |-> "await", ip |-> k, step |-> j + 1, rlog |-> Append(log, body[j + 1]),
       rresult |-> Pending]

Resume(next) ==
  /\ rpc' = next.rpc
  /\ ip' = next.ip
  /\ step' = next.step
  /\ rlog' = next.rlog
  /\ rresult' = next.rresult

Settled(log, state) == [log EXCEPT ![Len(log)].state = state]

\* run(script) is called: line 191 up to its await
Run ==
  /\ rpc = "idle"
  /\ commands' = <<>>
  /\ rpc' = "getEntries"
  /\ ip' = 0
  /\ step' = 0
  /\ rlog' = <<Call0("reader.getEntries")>>
  /\ rresult' = Pending
  /\ UNCHANGED <<archive, nestedInfo, flashAllSh, script>>
  /\ UNCHANGED <<deviceVars, parseVars>>

\* this.reader.getEntries() settles: lines 191-194 and the first instruction
\* up to its first await
RunGetEntries ==
  /\ rpc = "getEntries"
  /\ \E ok \in BOOLEAN :
       IF ~ok THEN
         /\ rlog' = Settled(rlog, "failed")
         /\ rresult' = Thrown("Error", "rejected")
         /\ rpc' = "idle"
         /\ UNCHANGED <<commands, ip, step>>
       ELSE
         LET parsed == parseInstructions(script) IN
         IF parsed.error # "" THEN
           /\ rlog' = Settled(rlog, "ok")
           /\ rresult' = Thrown("Error", parsed.error)
           /\ rpc' = "idle"
           /\ UNCHANGED <<commands, ip, step>>
         ELSE
           /\ commands' = parsed.instructions
           /\ Resume(Continue(parsed.instructions, 1, 0, Settled(rlog, "ok")))
  /\ UNCHANGED <<archive, nestedInfo, flashAllSh, script>>
  /\ UNCHANGED <<deviceVars, parseVars>>

\* the promise run awaits inside the loop settles: a rejection ends run, a
\* fulfilment lets it go on to its next await (a timer is never rejected)
RunAwait ==
  /\ rpc = "await"
  /\ \E ok \in BOOLEAN :
       IF ~ok THEN
         /\ rlog[Len(rlog)].call # "setTimeout"
         /\ rlog' = Settled(rlog, "failed")
         /\ rresult' = Thrown("Error", "rejected")
         /\ rpc' = "idle"
         /\ UNCHANGED <<ip, step>>
       ELSE Resume(Continue(commands, ip, step, Settled(rlog, "ok")))
  /\ UNCHANGED <<archive, nestedInfo, flashAllSh, script, commands>>
  /\ UNCHANGED <<deviceVars, parseVars>>

\* a FastbootFlasher over one of the archives and the text run is called
\* with, its client's device idle
InitRun ==
  /\ Constructed
  /\ opened = FALSE
  /\ visible = {1}
  /\ loggerCallable = FALSE
  /\ archive \in Archives
  /\ flashAllSh = <<>>
  /\ ptext = NoTexts
  /\ presult = NotParsed
  /\ nestedInfo \in BOOLEAN
  /\ script \in Scripts

NextRun ==
  \/ Run
  \/ RunGetEntries
  \/ RunAwait

SpecRun == InitRun /\ [][NextRun]_vars

(***************************************************************************)
(* FastbootFlasher.runFlashAll                                             *)
(***************************************************************************)
\* the lines a flash-all.sh is made of
RawLines ==
  {<<"f", "a", "s", "t", "b", "o", "o", "t", " ", "-", "w", " ", "u", "p", "d", "a", "t", "e", " ", "i", "m", "a", "g", "e", ".", "z", "i", "p">>,
   <<"f", "a", "s", "t", "b", "o", "o", "t", " ", "r", "e", "b", "o", "o", "t", "-", "b", "o", "o", "t", "l", "o", "a", "d", "e", "r">>,
   <<" ", " ", "f", "a", "s", "t", "b", "o", "o", "t", " ", "e", "r", "a", "s", "e", " ", "m", "i", "s", "c">>,
   <<"s", "l", "e", "e", "p", " ", "5">>,
   <<"e", "r", "a", "s", "e", " ", "m", "i", "s", "c">>,
   <<"e", "c", "h", "o", " ", "d", "o", "n", "e">>,
   <<"f", "a", "s", "t", "b", "o", "o", "t", "x", " ", "e", "r", "a", "s", "e", " ", "m", "i", "s", "c">>,
   <<"s", "l", "e", "e", "p", "w", "a", "l", "k">>}

RECURSIVE RawScriptsOfLength(_)
RawScriptsOfLength(n) ==
  IF n = 0 THEN {<<>>}
  ELSE {Append(s, l) : s \in RawScriptsOfLength(n - 1), l \in RawLines}
RawScripts == UNION {RawScriptsOfLength(n) : n \in 0..MaxRawLines}

\* the archives with and without a flash-all.sh entry
FlashAllArchives ==
  {{FileEntry(<<"f", "a", "c", "t", "o", "r", "y", "/", "i", "m", "a", "g", "e", ".", "z", "i", "p">>)},
   {FileEntry(<<"f", "a", "c", "t", "o", "r", "y", "/", "f", "l", "a", "s", "h", "-", "a", "l", "l", ".", "s", "h">>), FileEntry(<<"f", "a", "c", "t", "o", "r", "y", "/", "i", "m", "a", "g", "e", ".", "z", "i", "p">>)}}

\* the filter that keeps every line
KeepLine_All(x) == TRUE
\* the filter of line 184
KeepLine(x) == Take(x, 9) = <<"f", "a", "s", "t", "b", "o", "o", "t", " ">> \/ Take(x, 5) = <<"s", "l", "e", "e", "p">>

\* lines 181-185: split("\n"), trim, filter; join("\n") follows
RECURSIVE FilterLines(_)
FilterLines(lines) ==
  IF lines = <<>> THEN <<>>
  ELSE LET x == Trim(Head(lines)) IN
       IF KeepLine(x) THEN <<x>> \o FilterLines(Tail(lines))
       ELSE FilterLines(Tail(lines))

\* kept.join("\n"), as the lines run's split("\n") gives back: the join of
\* no line is the empty text, which splits into one empty line
JoinedLines(kept) == IF kept = <<>> THEN <<<<>>>> ELSE kept

\* runFlashAll() is called: line 175 up to its await
RunFlashAll ==
  /\ rpc = "idle"
  /\ commands' = <<>>
  /\ script' = <<>>
  /\ rpc' = "flashAllEntries"
  /\ ip' = 0
  /\ step' = 0
  /\ rlog' = <<Call0("reader.getEntries")>>
  /\ rresult' = Pending
  /\ UNCHANGED <<archive, nestedInfo, flashAllSh>>
  /\ UNCHANGED <<deviceVars, parseVars>>

\* this.reader.getEntries() settles: lines 175-178, up to getData
RunFlashAllGetEntries ==
  /\ rpc = "flashAllEntries"
  /\ \E ok \in BOOLEAN :
       IF ~ok THEN
         /\ rlog' = Settled(rlog, "failed")
         /\ rresult' = Thrown("Error", "rejected")
         /\ rpc' = "idle"
       ELSE IF ~HasEntry({e \in archive : isFileEntry(e)}, <<"f", "l", "a", "s", "h", "-", "a", "l", "l", ".", "s", "h">>) THEN
         /\ rlog' = Settled(rlog, "ok")
         /\ rresult' = Thrown("Error", "not found in zip")
         /\ rpc' = "idle"
       ELSE
         /\ rlog' = Append(Settled(rlog, "ok"), Call1("flashAllSh.getData", <<"f", "l", "a", "s", "h", "-", "a", "l", "l", ".", "s", "h">>))
         /\ rpc' = "flashAllData"
         /\ UNCHANGED rresult
  /\ UNCHANGED <<archive, nestedInfo, flashAllSh, script, commands, ip, step>>
  /\ UNCHANGED <<deviceVars, parseVars>>

\* getData settles: lines 176-187, and run(instructions) up to its await
RunFlashAllGetData ==
  /\ rpc = "flashAllData"
  /\ \E ok \in BOOLEAN :
       IF ~ok THEN
         /\ rlog' = Settled(rlog, "failed")
         /\ rresult' = Thrown("Error", "rejected")
         /\ rpc' = "idle"
         /\ UNCHANGED script
       ELSE
         /\ script' = JoinedLines(FilterLines(flashAllSh))
         /\ rlog' = Append(Settled(rlog, "ok"), Call0("reader.getEntries"))
         /\ rpc' = "getEntries"
         /\ UNCHANGED rresult
  /\ UNCHANGED <<archive, nestedInfo, flashAllSh, commands, ip, step>>
  /\ UNCHANGED <<deviceVars, parseVars>>

\* a FastbootFlasher over an archive whose flash-all.sh is one of the texts
InitFlashAll ==
  /\ Constructed
  /\ opened = FALSE
  /\ visible = {1}
  /\ loggerCallable = FALSE
  /\ archive \in FlashAllArchives
  /\ nestedInfo \in BOOLEAN
  /\ flashAllSh \in RawScripts
  /\ ptext = NoTexts
  /\ presult = NotParsed
  /\ script = <<>>

NextFlashAll ==
  \/ RunFlashAll
  \/ RunFlashAllGetEntries
  \/ RunFlashAllGetData
  \/ RunGetEntries
  \/ RunAwait

SpecFlashAll == InitFlashAll /\ [][NextFlashAll]_vars

(***************************************************************************)
(* Reading the transfer log                                                *)
(***************************************************************************)
IsCommandWrite(e) == e.kind = "command"
IsChunkWrite(e) == e.kind = "chunk"
IsRead(e) == e.kind = "packet"
IsTerminalRead(e) == e.kind = "packet" /\ e.raw.prefix \in {"OKAY", "FAIL"}
IsInfoRead(e) == e.kind = "packet" /\ e.raw.prefix \in {"INFO", "TEXT"}

\* a session is active in the sense of the specification: it has a packet and
\* the last one is neither OKAY nor FAIL
HasPacket(s) == Len(s.packets) > 0
EndsTerminal(s) == HasPacket(s) /\ StatusOf(s.packets[Len(s.packets)]) \in {"OKAY", "FAIL"}
Busy(s) == HasPacket(s) /\ ~EndsTerminal(s)

BusyError == Thrown("Error", <<"fastboot device is busy">>)

\* C1: between two command texts written to the OUT endpoint by exec calls,
\* the OKAY/FAIL packet that ends the first command has been read.
C1_OneCommandAtATime ==
  \A j, k \in 1..Len(usb) :
    (j < k /\ IsCommandWrite(usb[j]) /\ IsCommandWrite(usb[k]))
      => \E m \in (j + 1)..(k - 1) : IsTerminalRead(usb[m])

\* C2: an exec (or getVar) step taken while the current session is busy ends
\* with the busy error and leaves the session, the history, the device and
\* the transfer log as they were.
C2_ExecWhileActiveChangesNothing ==
  [][\A p \in Callers :
       ((Exec(p) \/ GetVar(p)) /\ Busy(session))
         => /\ outcome'[p] = BusyError
            /\ pc'[p] = "idle"
            /\ UNCHANGED <<opened, session, sessions, usb>>]_vars

\* C2 witness: a call was rejected as busy while another call is suspended
\* with its command outstanding
C2_Witness ==
  \E p, q \in Callers :
    /\ p # q
    /\ outcome[p] = BusyError
    /\ pc[p] = "idle"
    /\ pc[q] \in {"sendCommand_transferOut", "sendCommand_transferIn"}
    /\ Busy(session)

\* C3: isActive is the specification's notion of busy, and once a session
\* ends with OKAY or FAIL it gets no further packet and is never active
\* again (the next step keeps it as it is, or exec archives it).
C3_TerminatedSessionIsFrozen ==
  [][/\ isActive' = Busy(session')
     /\ EndsTerminal(session)
          => \/ session'.packets = session.packets /\ ~IsActiveOf(session')
             \/ sessions' = Append(sessions, session)]_vars

(***************************************************************************)
(* The transfers of the latest call that wrote a command: from the last    *)
(* command text in the log to its end.                                     *)
(***************************************************************************)
HasCommandWrite == \E j \in 1..Len(usb) : IsCommandWrite(usb[j])
LastCommandWrite ==
  CHOOSE j \in 1..Len(usb) :
    IsCommandWrite(usb[j]) /\ \A k \in (j + 1)..Len(usb) : ~IsCommandWrite(usb[k])
CallLog == IF HasCommandWrite THEN SubSeq(usb, LastCommandWrite, Len(usb)) ELSE <<>>

\* the packets CallLog's reads decode to, in wire order
RECURSIVE DecodedReads(_)
DecodedReads(log) ==
  IF log = <<>> THEN <<>>
  ELSE IF IsRead(Head(log)) THEN <<DecodePacket(Head(log).raw)>> \o DecodedReads(Tail(log))
  ELSE DecodedReads(Tail(log))

\* p's call has settled after sendCommand read a packet that is not INFO/TEXT
SendCommandFinished(p) ==
  /\ pc[p] = "idle"
  /\ op[p] \in {"exec", "getVar", "sendCommand"}
  /\ \/ outcome[p].kind = "returned"
     \/ outcome[p].error = "FastbootDeviceError"

\* C4: when sendCommand has finished, the log of the call is the command text
\* written once followed by reads only, the session's packets are the Command
\* packet followed by exactly the packets read, all INFO/TEXT but the last,
\* which is OKAY, FAIL or DATA and is what the call returns unless it is FAIL.
C4_SendCommandSessionShape ==
  \A p \in Sequential :
    SendCommandFinished(p) =>
      LET n == Len(session.packets) IN
      /\ CallLog # <<>>
      /\ CallLog[1].text = arg[p].text
      /\ \A k \in 2..Len(CallLog) : IsRead(CallLog[k])
      /\ session.packets = <<CommandPacket(arg[p].text)>> \o DecodedReads(CallLog)
      /\ \A k \in 2..(n - 1) : StatusOf(session.packets[k]) \in {"INFO", "TEXT"}
      /\ StatusOf(session.packets[n]) \in {"OKAY", "FAIL", "DATA"}
      /\ StatusOf(session.packets[n]) # "FAIL" =>
           outcome[p] \in {Returned(session.packets[n]),
                           Returned([message |-> session.packets[n].message])}
      /\ StatusOf(session.packets[n]) = "FAIL" => outcome[p].kind = "thrown"

\* C5: a call whose last packet read is FAIL has failed with
\* FastbootDeviceError carrying the packet's message, and the session status
\* is FAIL.
C5_FailAlwaysThrows ==
  \A p \in Sequential :
    (/\ pc[p] = "idle"
     /\ outcome[p].kind # "pending"
     /\ usb # <<>>
     /\ IsRead(usb[Len(usb)])
     /\ usb[Len(usb)].raw.prefix = "FAIL")
      => /\ outcome[p] = FastbootDeviceError(usb[Len(usb)].raw.rest)
         /\ session.status = "FAIL"

\* the reply to download:{hex}: the first read of the call that is not INFO/TEXT
HasReply(log) == \E k \in 1..Len(log) : IsRead(log[k]) /\ ~IsInfoRead(log[k])
ReplyIndex(log) ==
  CHOOSE k \in 1..Len(log) :
    /\ IsRead(log[k]) /\ ~IsInfoRead(log[k])
    /\ \A m \in 1..(k - 1) : ~(IsRead(log[m]) /\ ~IsInfoRead(log[m]))
HandshakeOk(log, byteLength) ==
  /\ HasReply(log)
  /\ log[ReplyIndex(log)].raw.prefix = "DATA"
  /\ DecodePacket(log[ReplyIndex(log)].raw).dataLength = byteLength
Chunks(log) == SelectSeq(log, IsChunkWrite)
CommandWrites == {j \in 1..Len(usb) : IsCommandWrite(usb[j])}

\* C6: transferData writes a chunk only after a DATA reply whose dataLength
\* is the buffer's byteLength; after any other reply the call has failed (with
\* FastbootDeviceError when the reply is a status packet), that reply is the
\* last transfer made, and no call has written more than one command.
C6_PayloadOnlyAfterMatchingData ==
  \A p \in Sequential :
    (op[p] = "transferData" /\ CallLog # <<>>) =>
      /\ CallLog[1].text = <<"download:">> \o XferHex(arg[p].byteLength)
      /\ Chunks(CallLog) # <<>> => HandshakeOk(CallLog, arg[p].byteLength)
      /\ (HasReply(CallLog) /\ ~HandshakeOk(CallLog, arg[p].byteLength)) =>
           /\ pc[p] = "idle"
           /\ outcome[p].kind = "thrown"
           /\ CallLog[ReplyIndex(CallLog)].raw.prefix # "JUNK"
                => outcome[p].error = "FastbootDeviceError"
           /\ ReplyIndex(CallLog) = Len(CallLog)
           /\ Chunks(CallLog) = <<>>
      /\ Cardinality(CommandWrites) <= calls

\* C6 witness: transferData of a non-empty buffer failed on a DATA reply that
\* announces another length
C6_Witness ==
  \E p \in Sequential :
    /\ op[p] = "transferData" /\ pc[p] = "idle"
    /\ arg[p].byteLength > 0
    /\ HasReply(CallLog)
    /\ CallLog[ReplyIndex(CallLog)].raw.prefix = "DATA"
    /\ ~HandshakeOk(CallLog, arg[p].byteLength)
    /\ outcome[p].error = "FastbootDeviceError"

CeilDiv(n, d) == (n + d - 1) \div d
\* number of chunk writes among the first k entries of log
ChunksBefore(log, k) == Cardinality({m \in 1..(k - 1) : IsChunkWrite(log[m])})

\* C7: after the handshake the chunks written are consecutive slices of the
\* buffer from offset 0, each of BULK_TRANSFER_SIZE bytes but the last, none
\* empty; while one is in flight the loop has sent i of them and bytes remain;
\* packets are read again only once all ceil(n / BULK_TRANSFER_SIZE) are written.
C7_ChunksCoverBuffer ==
  \A p \in Sequential :
    (op[p] = "transferData" /\ HandshakeOk(CallLog, arg[p].byteLength)) =>
      LET n == arg[p].byteLength
          chunks == Chunks(CallLog)
          total == CeilDiv(n, BULK_TRANSFER_SIZE)
      IN /\ Len(chunks) <= total
         /\ \A k \in 1..Len(chunks) :
              /\ chunks[k].from = (k - 1) * BULK_TRANSFER_SIZE
              /\ chunks[k].len > 0
              /\ k < total => chunks[k].len = BULK_TRANSFER_SIZE
              /\ k = total => chunks[k].from + chunks[k].len = n
         /\ pc[p] = "chunk_transferOut" =>
              /\ Len(chunks) = i[p] + 1
              /\ remainingBytes[p] = n - i[p] * BULK_TRANSFER_SIZE
              /\ remainingBytes[p] > 0
         /\ pc[p] \in {"drain_transferIn", "idle"} => Len(chunks) = total
         /\ \A k \in 1..Len(CallLog) :
              (IsRead(CallLog[k]) /\ k > ReplyIndex(CallLog))
                => ChunksBefore(CallLog, k) = total

\* C7 witness: a buffer that is not a multiple of the chunk size was sent in
\* three chunks and the drained reply has been read
C7_Witness ==
  \E p \in Sequential :
    /\ op[p] = "transferData" /\ pc[p] = "idle"
    /\ HandshakeOk(CallLog, arg[p].byteLength)
    /\ Len(Chunks(CallLog)) = 3
    /\ arg[p].byteLength % BULK_TRANSFER_SIZE # 0
    /\ outcome[p].kind = "returned"

\* the step is a call of transferData by p
CallsTransferData(p) ==
  /\ pc[p] = "idle"
  /\ op'[p] = "transferData"
  /\ calls' = calls + 1
  /\ \A q \in Callers \ {p} : pc'[q] = pc[q] /\ op'[q] = op[q] /\ arg'[q] = arg[q]
\* the length is at most 2^32 - 1
FitsEightDigits(n) == n.high < Limb
LowercaseHex == {HexDigits[k] : k \in 1..16}
\* d is 8 lowercase hex digits whose value is n
EncodesLength(d, n) ==
  /\ Len(d) = 8
  /\ \A k \in 1..8 : d[k] \in LowercaseHex
  /\ ParseInt16(SubSeq(d, 1, 4)) = n.high
  /\ ParseInt16(SubSeq(d, 5, 8)) = n.low

\* C16: a transferData call with a buffer of more than 2^32 - 1 bytes fails
\* with FastbootDeviceError and leaves the session, the history and the
\* transfer log as they were; with any other buffer it writes, as its first
\* transfer, download: followed by 8 lowercase hex digits whose value is the
\* buffer's length.
C16_LengthFitsEightHexDigits ==
  [][\A p \in Callers :
       CallsTransferData(p) =>
         LET n == arg'[p].byteLength IN
         IF ~FitsEightDigits(n)
           THEN /\ outcome'[p].kind = "thrown"
                /\ outcome'[p].error = "FastbootDeviceError"
                /\ pc'[p] = "idle"
                /\ UNCHANGED <<session, sessions, usb>>
           ELSE /\ Len(usb') = Len(usb) + 1
                /\ IsCommandWrite(usb'[Len(usb')])
                /\ LET text == usb'[Len(usb')].text IN
                     /\ Len(text) = 9
                     /\ text[1] = "download:"
                     /\ EncodesLength(SubSeq(text, 2, 9), n)]_vars

\* transferData was called with a buffer of 2^32 bytes and has failed, and
\* with one of 2^32 - 1 bytes and has written download:ffffffff
C16_Witness ==
  \E p, q \in Callers :
    /\ op[p] = "transferData" /\ op[q] = "transferData"
    /\ arg[p].byteLength = Length(Limb, 0)
    /\ outcome[p].kind = "thrown"
    /\ arg[q].byteLength = Length(Limb - 1, Limb - 1)
    /\ pc[q] = "sendCommand_transferOut"
    /\ usb[Len(usb)].text = <<"download:", "f", "f", "f", "f", "f", "f", "f", "f">>

\* C17: when an exec, getVar or transferData call has returned or failed for
\* another reason than the busy error, the current session is not active.
C17_NeverLeftBusy ==
  \A p \in Sequential :
    (/\ pc[p] = "idle"
     /\ op[p] \in {"exec", "getVar", "transferData"}
     /\ outcome[p] # BusyError)
      => ~isActive

\* the session has an OKAY or FAIL packet
HasTerminalPacket(s) ==
  \E k \in 1..Len(s.packets) : StatusOf(s.packets[k]) \in {"OKAY", "FAIL"}
\* the status field says where the session is in Empty -> Active -> {OKAY, FAIL}
StatusTracksPackets(s) ==
  /\ s.status = Null <=> ~HasTerminalPacket(s)
  /\ EndsTerminal(s) => s.status = StatusOf(s.packets[Len(s.packets)])

\* C18: the status of the current session and of every session in the
\* history is uninitialized exactly while the session has no OKAY/FAIL
\* packet and is the status of its last packet once that is OKAY or FAIL; a
\* status that is OKAY or FAIL never changes.
C18_StatusTracksSession ==
  /\ [](/\ StatusTracksPackets(session)
        /\ \A k \in 1..Len(sessions) : StatusTracksPackets(sessions[k]))
  /\ [][/\ (session.status # Null /\ sessions' = sessions) =>
             session'.status = session.status
        /\ \A k \in 1..Len(sessions) :
             sessions[k].status # Null => sessions'[k].status = sessions[k].status]_vars

(***************************************************************************)
(* Reading the log of a run call                                           *)
(***************************************************************************)
IsPrefix(a, b) == Len(a) <= Len(b) /\ a = SubSeq(b, 1, Len(a))

ClientCalls ==
  {"client.doFlash", "client.setActiveOtherSlot", "client.fd.exec",
   "client.rebootBootloader", "client.fastbootInfo", "client.lock", "client.unlock",
   "client.getVar", "client.erase"}
IsClientCall(e) == e.call \in ClientCalls
Signature(name, a, slot, flag) == [call |-> name, arg |-> a, slot |-> slot, flag |-> flag]
SignatureOf(e) == Signature(e.call, e.arg, e.slot, e.flag)
Signatures(log) == [k \in 1..Len(log) |-> SignatureOf(log[k])]
\* the client calls run has started, in order
Made == Signatures(SelectSeq(rlog, IsClientCall))

\* the call sequence of one instruction
OwnCalls(c) ==
  LET first == IF c.args = <<>> THEN <<>> ELSE c.args[1]
      reboot == <<Signature("client.rebootBootloader", <<>>, <<>>, FALSE)>>
  IN CASE c.command = <<"f", "l", "a", "s", "h">> /\ Len(c.args) >= 2 ->
            <<Signature("client.doFlash", first,
                        IF c.options.slot = <<>> THEN <<"c", "u", "r", "r", "e", "n", "t">> ELSE c.options.slot,
                        c.options.applyVbmeta)>>
       [] c.command = <<"r", "e", "b", "o", "o", "t", "-", "b", "o", "o", "t", "l", "o", "a", "d", "e", "r">> /\ c.options.setActive = <<"o", "t", "h", "e", "r">> ->
            <<Signature("client.setActiveOtherSlot", <<>>, <<>>, FALSE)>> \o reboot
       [] c.command = <<"r", "e", "b", "o", "o", "t", "-", "b", "o", "o", "t", "l", "o", "a", "d", "e", "r">> /\ c.options.setActive \in {<<"a">>, <<"b">>} ->
            <<Signature("client.fd.exec", <<"s", "e", "t", "_", "a", "c", "t", "i", "v", "e", ":">> \o c.options.setActive, <<>>, FALSE)>>
            \o reboot
       [] c.command = <<"r", "e", "b", "o", "o", "t", "-", "b", "o", "o", "t", "l", "o", "a", "d", "e", "r">> /\ c.options.setActive = <<>> -> reboot
       [] c.command = <<"u", "p", "d", "a", "t", "e">> /\ first # <<>> ->
            <<Signature("client.fastbootInfo", <<>>, <<>>, c.options.wipe)>>
       [] c.command = <<"f", "l", "a", "s", "h", "i", "n", "g">> /\ first = <<"l", "o", "c", "k">> ->
            <<Signature("client.lock", <<>>, <<>>, FALSE)>>
       [] c.command = <<"f", "l", "a", "s", "h", "i", "n", "g">> /\ first = <<"u", "n", "l", "o", "c", "k">> ->
            <<Signature("client.unlock", <<>>, <<>>, FALSE)>>
       [] c.command = <<"g", "e", "t", "v", "a", "r">> /\ first # <<>> ->
            <<Signature("client.getVar", first, <<>>, FALSE)>>
       [] c.command = <<"e", "r", "a", "s", "e">> /\ first # <<>> ->
            <<Signature("client.erase", first, <<>>, FALSE)>>
       [] OTHER -> <<>>

RECURSIVE Concatenation(_)
Concatenation(cs) ==
  IF cs = <<>> THEN <<>> ELSE OwnCalls(Head(cs)) \o Concatenation(Tail(cs))

\* the client calls of the whole script; none when a line does not parse
Wanted == Concatenation(parseInstructions(script).instructions)

\* C8: the client calls run has made are a prefix of the concatenation, in
\* script order, of each instruction's own calls (slot switch before the
\* reboot), and all of it once run has returned; every promise awaited before
\* the latest one was fulfilled before the next was started; a rejected
\* promise or a throw ends run, so nothing is started after a failure.
C8_CallsInScriptOrder ==
  /\ IsPrefix(Made, Wanted)
  /\ \A k \in 1..Len(rlog) : k < Len(rlog) => rlog[k].state = "ok"
  /\ rresult.kind = "returned" => Made = Wanted
  /\ rresult.kind = "thrown" => rpc = "idle"
  /\ rlog # <<>> /\ rlog[Len(rlog)].state = "failed" => rresult.kind = "thrown"
  /\ rlog # <<>> /\ rlog[Len(rlog)].state = "pending" <=> rpc # "idle"

\* a script with a slot switch, a reboot and one more call has run to its end
C8_Witness ==
  /\ rpc = "idle"
  /\ rresult.kind = "returned"
  /\ \E k \in 1..Len(Made) :
       /\ k + 2 <= Len(Made)
       /\ Made[k].call = "client.fd.exec"
       /\ Made[k + 1].call = "client.rebootBootloader"

\* the lines of the script parseInstruction is applied to
IsInstructionLine(line) == Trim(line) # <<>> /\ Trim(line)[1] # "#"
\* a line of the script does not parse
Malformed ==
  \E k \in 1..Len(script) :
    IsInstructionLine(script[k]) /\ parseInstruction(Trim(script[k])).error # ""
\* the instruction lacks an argument its command requires
MissingRequiredArg(c) ==
  \/ c.command = <<"f", "l", "a", "s", "h">> /\ Len(c.args) < 2
  \/ c.command \in {<<"u", "p", "d", "a", "t", "e">>, <<"g", "e", "t", "v", "a", "r">>, <<"e", "r", "a", "s", "e">>} /\ Len(c.args) < 1

\* C11: when a line of the script does not parse, run lists the archive and
\* makes no other call, for no line, and does not return normally; run never
\* awaits a call for an instruction that lacks a required argument, and never
\* returns normally from a script with such an instruction.
C11_ParseThenExecute ==
  /\ Malformed =>
       /\ \A k \in 1..Len(rlog) : rlog[k].call = "reader.getEntries"
       /\ rresult.kind # "returned"
       /\ commands = <<>>
  /\ (ip \in 1..Len(commands) /\ step > 0) => ~MissingRequiredArg(commands[ip])
  /\ rresult.kind = "returned" =>
       \A k \in 1..Len(commands) : ~MissingRequiredArg(commands[k])

\* a script whose second line does not parse and whose first line would make
\* a client call has been run: the archive was listed and run has thrown
C11_Witness ==
  /\ Len(script) = 2
  /\ parseInstruction(Trim(script[1])).error = ""
  /\ OwnCalls(parseInstruction(Trim(script[1]))) # <<>>
  /\ parseInstruction(Trim(script[2])).error # ""
  /\ rpc = "idle"
  /\ rresult.kind = "thrown"
  /\ Len(rlog) = 1
  /\ rlog[1].state = "ok"

BeginsWith(x, prefix) == Len(x) >= Len(prefix) /\ SubSeq(x, 1, Len(prefix)) = prefix
\* the line, trimmed, begins with "fastboot " or with "sleep"
Dispatchable(x) == BeginsWith(x, <<"f", "a", "s", "t", "b", "o", "o", "t", " ">>) \/ BeginsWith(x, <<"s", "l", "e", "e", "p">>)
\* the trimmed lines of flash-all.sh that are dispatchable, in their order
KeptLines ==
  SelectSeq([k \in 1..Len(flashAllSh) |-> Trim(flashAllSh[k])], Dispatchable)
IsTimer(e) == e.call = "setTimeout"
IsDispatch(e) == IsClientCall(e) \/ IsTimer(e)
\* the client calls and timers started so far, in order
Dispatched == Signatures(SelectSeq(rlog, IsDispatch))
\* what one instruction dispatches: its client calls, or its timer
OwnDispatches(c) ==
  IF c.command = <<"s", "l", "e", "e", "p">>
       \/ (c.command = <<"o", "e", "m">> /\ c.args # <<>> /\ c.args[1] \in {<<"f", "b", "_", "m", "o", "d", "e", "_", "s", "e", "t">>, <<"f", "b", "_", "m", "o", "d", "e", "_", "c", "l", "e", "a", "r">>})
    THEN <<Signature("setTimeout", <<>>, <<>>, FALSE)>>
    ELSE OwnCalls(c)
RECURSIVE DispatchesOf(_)
DispatchesOf(cs) ==
  IF cs = <<>> THEN <<>> ELSE OwnDispatches(Head(cs)) \o DispatchesOf(Tail(cs))
RECURSIVE InstructionsOf(_)
InstructionsOf(lines) ==
  IF lines = <<>> THEN <<>>
  ELSE <<parseInstruction(Head(lines))>> \o InstructionsOf(Tail(lines))
KeptInstructions == InstructionsOf(KeptLines)
KeptMalformed == \E k \in 1..Len(KeptInstructions) : KeptInstructions[k].error # ""
ParseErrors == {"Unknown command", "Missing command", "--slot requires a value", "unknown slot"}
UpdateThenReboot == <<<<"f", "a", "s", "t", "b", "o", "o", "t", " ", "-", "w", " ", "u", "p", "d", "a", "t", "e", " ", "i", "m", "a", "g", "e", ".", "z", "i", "p">>, <<"f", "a", "s", "t", "b", "o", "o", "t", " ", "r", "e", "b", "o", "o", "t", "-", "b", "o", "o", "t", "l", "o", "a", "d", "e", "r">>>>

\* C12: what runFlashAll dispatches is a prefix of what the dispatchable
\* lines of flash-all.sh dispatch, in their order, and all of it once it has
\* returned; nothing is dispatched when one of them does not parse, and it
\* fails to parse only for one of them; when the dispatchable lines are
\* `fastboot -w update image.zip` and `fastboot reboot-bootloader`, the reboot
\* is started only after fastbootInfo was called with wipe = true and completed.
C12_FlashAllDispatchesKeptLines ==
  /\ IsPrefix(Dispatched, IF KeptMalformed THEN <<>> ELSE DispatchesOf(KeptInstructions))
  /\ rresult.kind = "returned" =>
       ~KeptMalformed /\ Dispatched = DispatchesOf(KeptInstructions)
  /\ (rresult.kind = "thrown" /\ rresult.value.message \in ParseErrors) => KeptMalformed
  /\ KeptLines = UpdateThenReboot =>
       \A k \in 1..Len(rlog) :
         rlog[k].call = "client.rebootBootloader" =>
           \E j \in 1..(k - 1) :
             /\ rlog[j].call = "client.fastbootInfo"
             /\ rlog[j].flag
             /\ rlog[j].state = "ok"

\* a flash-all.sh with the two lines among lines that are not dispatchable
\* has been run to its end
C12_Witness ==
  /\ KeptLines = UpdateThenReboot
  /\ Len(flashAllSh) > 2
  /\ rpc = "idle"
  /\ rresult.kind = "returned"
  /\ rlog[Len(rlog)].call = "client.rebootBootloader"
  /\ rlog[Len(rlog)].state = "ok"

\* C13: a line that parses still parses with one more unknown option in it,
\* and gives the same command, args and options.
C13_UnknownOptionsIgnored ==
  (presult.done /\ presult.without.error = "") =>
    /\ presult.with.error = ""
    /\ presult.with.command = presult.without.command
    /\ presult.with.args = presult.without.args
    /\ presult.with.options = presult.without.options

\* the interface of device d has exactly two endpoints, one IN and one OUT
OneInOneOut(d) ==
  /\ Len(EndpointsOf(d)) = 2
  /\ Cardinality({k \in 1..Len(EndpointsOf(d)) : EndpointsOf(d)[k] = "in"}) = 1
  /\ Cardinality({k \in 1..Len(EndpointsOf(d)) : EndpointsOf(d)[k] = "out"}) = 1
EndpointsOfHandle(d) == {Endpoint(d, k) : k \in 1..Len(EndpointsOf(d))}
\* this.in is an IN endpoint and this.out an OUT endpoint of this.device
BoundToHandle ==
  /\ epIn \in EndpointsOfHandle(device) /\ epIn.direction = "in"
  /\ epOut \in EndpointsOfHandle(device) /\ epOut.direction = "out"
\* setup() returned inside reconnect(), which goes on to connect()
Rebound == wpc = "getDevicesDone" /\ wpc' \in {"open", "selectConfiguration"}

\* C14: the device a FastbootDevice was constructed on, and every device
\* reconnect() has rebound it to, has exactly one IN and one OUT endpoint, and
\* this.in and this.out are the IN and the OUT endpoint of that device.
C14_BindValidatesEndpoints ==
  /\ OneInOneOut(device) /\ BoundToHandle
  /\ [][Rebound => (OneInOneOut(device') /\ BoundToHandle')]_vars

\* the reconnect() that is running settles
ReconnectSettles == wpc = "getDevicesDone" /\ wpc' # "getDevicesDone"
\* no device getDevices() listed has the serial number captured at bind time
NoMatch == \A d \in devices : SerialOf(d) # serialNumber

\* C15: a reconnect() that found no listed device with the captured serial
\* number fails with FastbootUsbConnectionError, leaves the device handle,
\* the serial number, the endpoints, the session and the history as they
\* were and does not call connect(); the device handle only ever changes to
\* a device with the captured serial number.
C15_ReconnectMatchesSerial ==
  [][/\ (ReconnectSettles /\ NoMatch) =>
          /\ wlog'[Len(wlog)].result = "FastbootUsbConnectionError"
          /\ wpc' \notin {"open", "selectConfiguration", "claimInterface"}
          /\ UNCHANGED <<device, serialNumber, epIn, epOut, opened, session, sessions, usb>>
     /\ device' # device => SerialOf(device') = serialNumber
     /\ serialNumber' = serialNumber]_vars

\* a reconnect() failed while only a device with another serial number was
\* listed, and the binding is the one made by the constructor
C15_Witness ==
  /\ devices = {3}
  /\ \E k \in 1..Len(wlog) : wlog[k].result = "FastbootUsbConnectionError"
  /\ device = 1
  /\ epIn = Endpoint(1, 1)
  /\ epOut = Endpoint(1, 2)

(***************************************************************************)
(* Reading the log of a waitForReconnect call                              *)
(***************************************************************************)
Schedule ==
  <<"reconnect", "setTimeout(3000)", "reconnect", "setTimeout(30000)", "reconnect",
    "addEventListener", "connect", "reconnect">>
Kinds(log) == [k \in 1..Len(log) |-> log[k].ev]
IsAttempt(e) == e.ev = "reconnect"
\* the attempt found no device with the serial number, found one and
\* connected, or is still running
IsMissOrSuccess(e) == e.result \in {"pending", "true", "FastbootUsbConnectionError"}

\* C9: as long as no attempt fails for another reason than a missing device,
\* what a waitForReconnect call does is a prefix of: attempt, 3 s pause,
\* attempt, 30 s pause, attempt, listen, connect event, attempt; it starts with
\* an attempt, and a successful attempt is the last thing done and makes the
\* call return true.
C9_EscalatingSchedule ==
  (waitCalls > 0 /\ \A k \in 1..Len(wlog) : IsAttempt(wlog[k]) => IsMissOrSuccess(wlog[k]))
    => /\ wlog # <<>>
       /\ IsPrefix(Kinds(wlog), Schedule)
       /\ \A k \in 1..Len(wlog) :
            (IsAttempt(wlog[k]) /\ wlog[k].result \in {"true", "pending"}) => k = Len(wlog)
       /\ \A k \in 1..Len(wlog) :
            (IsAttempt(wlog[k]) /\ wlog[k].result = "true")
              => wpc = "idle" /\ wresult = Returned(TrueValue)

\* C10: an attempt that failed for another reason than a missing device is
\* the last thing the call did, and the call has failed with that error.
C10_OtherFailuresPropagate ==
  \A k \in 1..Len(wlog) :
    (IsAttempt(wlog[k]) /\ ~IsMissOrSuccess(wlog[k]))
      => /\ k = Len(wlog)
         /\ wpc = "idle"
         /\ wresult = Thrown(wlog[k].result, <<>>)

\* the step writes the command text of an exec or getVar call to the device
ExecAccepted ==
  /\ Len(usb') = Len(usb) + 1
  /\ IsCommandWrite(usb'[Len(usb')])
  /\ op'[usb'[Len(usb')].by] \in {"exec", "getVar"}
\* a session that holds the Command packet just sent and nothing else
FreshWithCommand(s) ==
  /\ s.status = Null
  /\ Len(s.packets) = 1
  /\ StatusOf(s.packets[1]) \notin {"INFO", "TEXT", "OKAY", "FAIL", "DATA"}

\* C20: every session in the history is inactive; an accepted exec appends
\* the session that was current to the end of the history and installs a
\* fresh one, which holds nothing but the command it then sends; no other
\* step changes the history, and a session in the history never changes.
C20_HistoryIsAppendOnly ==
  /\ [](\A k \in 1..Len(sessions) : ~IsActiveOf(sessions[k]))
  /\ [][/\ ExecAccepted =>
             (sessions' = Append(sessions, session) /\ FreshWithCommand(session'))
        /\ ~ExecAccepted => sessions' = sessions
        /\ \A k \in 1..Len(sessions) :
             k <= Len(sessions') /\ sessions'[k] = sessions[k]]_vars

\* a device with the captured serial number is visible to the host
MatchVisible == \E d \in visible : SerialOf(d) = serialNumber
\* every reconnect() so far found no device, succeeded or is running
NoOtherFailure == \A k \in 1..Len(wlog) : IsAttempt(wlog[k]) => IsMissOrSuccess(wlog[k])

\* C19: when waitForReconnect has been called, a device with the captured
\* serial number is visible from some point on for ever, and no reconnect()
\* fails for another reason than a missing device, the call eventually
\* returns true.
C19_NoLostWakeup ==
  (<>(waitCalls > 0) /\ <>[]MatchVisible /\ []NoOtherFailure)
    => <>(wresult = Returned(TrueValue))

====
